---- MODULE Spec2Model ----
(***************************************************************************)
(* Model of the tool-calling orchestration loop (blender_senpai/llm.py,    *)
(* completion_stream), the tool registry (blender_senpai/tools.py) and the *)
(* main-thread dispatcher (blender_senpai/utils.py).                       *)
(***************************************************************************)
EXTENDS Integers, Sequences, FiniteSets, TLC

\* ------------------------------------------------------------------ bounds
MaxChunks == 3          \* chunks the provider delivers in the first stream
MaxSecond == 1          \* chunks the provider delivers in the second stream
MaxIndex == 1           \* largest provider index of a tool call
NumCallers == 2         \* threads that call dispatched functions
MaxClosures == 2        \* closures put on the execution queue in all
MaxHistory == 2         \* earlier messages given to a turn
MaxMembers == 3         \* functions defined in a tools module
MaxKeyLen == 4          \* characters of an API key
MaxDeltas == 2          \* tool-call deltas of a stream given to the accumulator alone
MaxCommands == 2        \* requests a client sends on one connection
MaxNames == 2           \* object names given to one modify_with_geometry_nodes call
MaxPath == 5            \* characters of a locator's path after its slash

\* A dict key that is missing, or a value that is None.
Absent == "<absent>"

\* -------------------------------------------------------------- registry
\* tools.py: every function decorated with @tool; `mainthread` is the
\* @mainthreadify() decorator, `catches` a try/except Exception around the
\* whole body (which then returns {"status": "error", ...}).
ToolTable ==
  [ execute_code |->
      [required |-> {"code"}, params |-> {"code"}, mainthread |-> TRUE, catches |-> TRUE],
    get_context |->
      [required |-> {}, params |-> {}, mainthread |-> TRUE, catches |-> FALSE],
    get_object |->
      [required |-> {"name"}, params |-> {"name"}, mainthread |-> FALSE, catches |-> FALSE],
    get_objects |->
      [required |-> {}, params |-> {}, mainthread |-> FALSE, catches |-> FALSE],
    import_file |->
      [required |-> {"file_path"}, params |-> {"file_path"}, mainthread |-> TRUE, catches |-> TRUE],
    modify_with_geometry_nodes |->
      [required |-> {"names"}, params |-> {"names", "node_tree"},
       mainthread |-> TRUE, catches |-> TRUE] ]

\* tool_functions: name -> callable, for the members that carry __is_tool__.
tool_functions == DOMAIN ToolTable

\* tool_functions.get(name): the callable (here its name) or None.
Resolve(name) == IF name \in tool_functions THEN name ELSE Absent

\* tools = _get_tools(): inspect.getmembers lists the members sorted by name.
tools ==
  << "execute_code", "get_context", "get_object", "get_objects",
     "import_file", "modify_with_geometry_nodes" >>

\* ------------------------------------------------------------------ JSON
CodeArgs == "{\"code\": \"x\"}"

\* json.loads(arguments_json or "{}") on the documents the argument
\* fragments can spell: an object yields its keys, anything else that is not
\* one complete JSON value is a JSONDecodeError.
JsonLoads(s) ==
  LET doc == IF s = "" THEN "{}" ELSE s
  IN  CASE doc = "{}" -> [ok |-> TRUE, keys |-> {}]
        [] doc = CodeArgs -> [ok |-> TRUE, keys |-> {"code"}]
        [] OTHER -> [ok |-> FALSE, keys |-> {}]

\* lines 216-221: decode once, fall back to {} on JSONDecodeError.
ArgumentsDict(arguments_json) ==
  LET r == JsonLoads(arguments_json) IN IF r.ok THEN r.keys ELSE {}

\* json.dumps of a payload value and of a Result mapping.
JsonDumpsValue(v) ==
  CASE v.kind = "str" -> "\"" \o v.str \o "\""
    [] v.kind = "list" -> "[]"
    [] v.kind = "dict" -> "{}"
    [] OTHER -> "null"

JsonDumps(result) ==
  "{\"status\": \"" \o result.status \o "\", \"payload\": "
     \o JsonDumpsValue(result.payload) \o "}"

OkResult == [status |-> "ok", payload |-> [kind |-> "list", str |-> ""]]
ErrorResult == [status |-> "error", payload |-> [kind |-> "str", str |-> "boom"]]

\* -------------------------------------------------------------- provider
Tokens == {"Hi", " there"}
Indices == 0..MaxIndex

Delta(index, id, name, arguments) ==
  [index |-> index, id |-> id, type |-> Absent, name |-> name, arguments |-> arguments]

\* Tool-call deltas: whole calls, a call split over fragments, bare
\* argument fragments.
DeltaSet ==
  UNION { { Delta(ix, "call_1", "get_context", Absent),
            Delta(ix, "call_2", "execute_code", CodeArgs),
            Delta(ix, "call_1", "get_", Absent),
            Delta(ix, Absent, "context", "{"),
            Delta(ix, Absent, Absent, "}") } : ix \in Indices }

ContentChunk(token) == [content |-> token, tool_calls |-> << >>]
ToolChunk(delta) == [content |-> Absent, tool_calls |-> << delta >>]

FirstChunks == { ContentChunk(t) : t \in Tokens } \cup { ToolChunk(d) : d \in DeltaSet }
SecondChunks ==
  { ContentChunk("Done"), ToolChunk(Delta(0, "call_1", "get_context", Absent)) }

\* ----------------------------------------------------------------- state
VARIABLES
  pc,                    \* position of completion_stream
  messages,              \* the message list sent to the provider
  received,              \* chunks delivered by the first stream so far
  received2,             \* chunks delivered by the second stream so far
  yielded,               \* tokens yielded to the caller, in order
  collected_content,     \* content tokens of the first stream
  collected_tool_calls,  \* index -> entry, in insertion order
  i,                     \* position of the loop over the tool calls
  awaiting,              \* the tool invocation in flight
  invoked,               \* tool invocations made, in order
  calls,                 \* parameters of the provider calls made, in order
  failure,               \* the exception that left completion_stream
  execution_queue,       \* utils.execution_queue: closures, FIFO
  futures,               \* closure -> state of its concurrent Future
  closures,              \* closure -> what it calls and for whom
  callers,               \* caller thread -> position in the wrapper
  tick,                  \* position of execute_queued_functions
  function,              \* the closure the tick took from the queue
  queued_at_start,       \* the closures that were queued when the tick began
  executed,              \* closures the tick has called, in order
  returned,              \* what the last tick returned to the host timer
  escaped,               \* exceptions that left execute_queued_functions
  registered             \* bpy.app.timers.is_registered(execute_queued_functions)

VARIABLES
  history,               \* completion_stream's argument: the earlier messages
  message,               \* completion_stream's argument: the new user message
  members,               \* the namespace of tools.py, in definition order
  declared,              \* what _get_tools() returned
  api_key,               \* the characters of the secret an ApiKey wraps
  emitted,               \* the last text produced from the ApiKey, and how
  cache,                 \* ApiKeyRepository._cache: provider -> key
  keyring,               \* the system key-ring: user name -> password
  last_call,             \* the last ApiKeyRepository call and its result
  uri,                   \* the locator handle_read_resource is called with
  requests,              \* get_resource requests sent to Blender, in order
  read_result            \* how handle_read_resource ended

VARIABLES
  tool_call_deltas,      \* the tool-call deltas a stream is still to deliver
  consumed,              \* the deltas the accumulation loop has merged, in order
  accumulated            \* the accumulator the loop has built from them

VARIABLES
  tested,                \* the verification request save_api_key made, and how it ended
  response,              \* the ApiKeyResponse of save_api_key not yet delivered
  listed                 \* the mapping ApiKeyRepository.list returned to its caller

VARIABLES
  ws_frames,             \* what the client sent and the endpoint has not received
  ws_sent,               \* every message the endpoint sent with send_json, in order
  served,                \* the frames the endpoint received, and how each ended
  endpoint,              \* position of websocket_endpoint
  client                 \* the client of the connection: _send_message

VARIABLES
  node_groups,           \* bpy.data.node_groups: the names, one per datablock
  materials,             \* bpy.data.materials: the names, one per datablock
  modifiers,             \* object name -> obj.modifiers, in order
  scanned,               \* the lru_cache of _scan_required_materials
  applied                \* the last modify_with_geometry_nodes call and its Result

turnVars ==
  << pc, messages, received, received2, yielded, collected_content,
     collected_tool_calls, i, awaiting, invoked, calls, failure >>
dispatcherVars ==
  << execution_queue, futures, closures, callers, tick, function,
     queued_at_start, executed, returned, escaped, registered >>
inputVars == << history, message >>
sideVars ==
  << members, declared, api_key, emitted, cache, keyring, last_call, uri, requests,
     read_result >>
accumulatorVars == << tool_call_deltas, consumed, accumulated >>
apiVars == << tested, response, listed >>
websocketVars == << ws_frames, ws_sent, served, endpoint, client >>
visualizerVars == << node_groups, materials, modifiers, scanned, applied >>
moreVars == << accumulatorVars, apiVars, websocketVars, visualizerVars >>
vars == << inputVars, turnVars, dispatcherVars, sideVars, moreVars >>

\* The parts of the program outside the turn and the dispatcher, at rest.
NoEmission == [via |-> Absent, text |-> << >>]
NoOperation == [op |-> Absent, provider |-> Absent, key |-> Absent, result |-> Absent]
NoUri == [scheme |-> Absent, host |-> Absent, path |-> << >>]

AccumulatorIdle == tool_call_deltas = << >> /\ consumed = << >> /\ accumulated = << >>
NoListing == [shares |-> FALSE, entries |-> << >>, mutated |-> 0]
ApiIdle == tested = << >> /\ response = << >> /\ listed = NoListing
NoClient == [pc |-> "idle", requests |-> 0, read |-> 0, response |-> << >>]
WebSocketIdle ==
  /\ ws_frames = << >>
  /\ ws_sent = << >>
  /\ served = << >>
  /\ endpoint = "receive"
  /\ client = NoClient
NoApplication == [names |-> << >>, node_tree |-> Absent, status |-> Absent]
VisualizerIdle ==
  /\ node_groups = << >>
  /\ materials = << >>
  /\ modifiers = << >>
  /\ scanned = << >>
  /\ applied = NoApplication
MoreIdle == AccumulatorIdle /\ ApiIdle /\ WebSocketIdle /\ VisualizerIdle
RegistryIdle == members = << >> /\ declared = << >>
ApiKeyIdle == api_key = << >> /\ emitted = NoEmission
RepositoryIdle == cache = << >> /\ keyring = << >> /\ last_call = NoOperation
ResourceIdle == uri = NoUri /\ requests = << >> /\ read_result = Absent

\* ------------------------------------------------------ _build_messages
History == << [role |-> "user", content |-> "earlier question"],
              [role |-> "assistant", content |-> "earlier answer"] >>
UserMessage == [text |-> "hello", files |-> << >>]

\* The inputs a turn can be given: histories of text messages and a new
\* message with or without text and attached files.
HistoryMessages ==
  { [role |-> "user", content |-> "q"], [role |-> "assistant", content |-> "a"] }
Histories == UNION { [1..n -> HistoryMessages] : n \in 0..MaxHistory }
UserMessages == [text : {"", "hello"}, files : { << >>, << "/tmp/a.png" >> }]

\* lines 101-113: the parts of the new message, the text first, then one
\* image part per file.
UserContent(user_message) ==
  (IF user_message.text # "" THEN << [type |-> "text", text |-> user_message.text] >>
   ELSE << >>)
  \o [k \in 1..Len(user_message.files) |->
        [type |-> "image_url",
         image_url |-> "data:image/jpeg;base64," \o user_message.files[k]]]

\* lines 77-99: a history message with text content is copied as it is.
Translated(hist) == [k \in 1..Len(hist) |-> [role |-> hist[k].role, content |-> hist[k].content]]

BuildMessagesUserFirst(hist, user_message) ==
  << [role |-> "system", content |-> "SYSTEM_PROMPT"],
     [role |-> "system", content |-> "Language: en"] >>
  \o << [role |-> "user", content |-> UserContent(user_message)] >>
  \o Translated(hist)

BuildMessages(hist, user_message) ==
  << [role |-> "system", content |-> "SYSTEM_PROMPT"],
     [role |-> "system", content |-> "Language: en"] >>
  \o Translated(hist)
  \o << [role |-> "user", content |-> UserContent(user_message)] >>

\* ----------------------------------------------------------- accumulator
Get(value, default) == IF value = Absent THEN default ELSE value

\* Position of the entry of `index` in the dict, 0 when there is none.
Pos(collected, index) ==
  IF \E k \in 1..Len(collected) : collected[k].index = index
  THEN CHOOSE k \in 1..Len(collected) : collected[k].index = index
  ELSE 0

\* lines 168-175: the entry setdefault creates for an unseen index.
NewEntry(tc_dict) ==
  [index |-> tc_dict.index, id |-> Get(tc_dict.id, ""),
   type |-> Get(tc_dict.type, "function"), name |-> "", arguments |-> ""]

\* lines 177-193: id and type are overwritten, name and arguments appended.
MergeOverwritingName(entry, tc_dict) ==
  [entry EXCEPT !.id = Get(tc_dict.id, @),
                !.type = Get(tc_dict.type, @),
                !.name = Get(tc_dict.name, @),
                !.arguments = @ \o Get(tc_dict.arguments, "")]

MergeKeepingFirstId(entry, tc_dict) ==
  [entry EXCEPT !.id = IF @ = "" THEN Get(tc_dict.id, @) ELSE @,
                !.type = Get(tc_dict.type, @),
                !.name = @ \o Get(tc_dict.name, ""),
                !.arguments = @ \o Get(tc_dict.arguments, "")]

Merge(entry, tc_dict) ==
  [entry EXCEPT !.id = Get(tc_dict.id, @),
                !.type = Get(tc_dict.type, @),
                !.name = @ \o Get(tc_dict.name, ""),
                !.arguments = @ \o Get(tc_dict.arguments, "")]

\* lines 165-193 for one delta.
AccumulateDelta(collected, tc_dict) ==
  LET k == Pos(collected, tc_dict.index)
      base == IF k = 0 THEN Append(collected, NewEntry(tc_dict)) ELSE collected
      p == IF k = 0 THEN Len(base) ELSE k
  IN  [base EXCEPT ![p] = Merge(@, tc_dict)]

\* lines 163-164: the deltas of one chunk, in order.
RECURSIVE AccumulateDeltas(_, _)
AccumulateDeltas(collected, deltas) ==
  IF deltas = << >> THEN collected
  ELSE AccumulateDeltas(AccumulateDelta(collected, Head(deltas)), Tail(deltas))

\* "".join(collected_content)
RECURSIVE Join(_)
Join(strs) == IF strs = << >> THEN "" ELSE Head(strs) \o Join(Tail(strs))

\* lines 196-202: the assistant message rebuilt from the stream.
AssistantMessage(content, tool_calls) ==
  IF tool_calls = << >>
  THEN [role |-> "assistant", content |-> IF content = << >> THEN Absent ELSE Join(content)]
  ELSE [role |-> "assistant", content |-> IF content = << >> THEN Absent ELSE Join(content),
        tool_calls |-> tool_calls]

\* lines 137-143 and 239-245.
FirstParams(msgs) ==
  [messages |-> Len(msgs), stream |-> TRUE, tools |-> tools, tool_choice |-> "auto"]
SecondParamsOffering(msgs) ==
  [messages |-> Len(msgs), stream |-> TRUE, tools |-> tools, tool_choice |-> "auto"]
SecondParams(msgs) ==
  [messages |-> Len(msgs), stream |-> TRUE, tools |-> << >>, tool_choice |-> "none"]

\* ------------------------------------------------------------ tool calls
\* function(**kwargs) binds when every required parameter is given and no
\* unknown keyword is passed; otherwise Python raises TypeError.
Binds(name, kwargs) ==
  ToolTable[name].required \subseteq kwargs /\ kwargs \subseteq ToolTable[name].params

\* What the tool's own code can do with the call: return a Result, or raise.
BodyOutcomes(name, kwargs) ==
  IF ~Binds(name, kwargs) THEN {"raise"}
  ELSE IF ToolTable[name].catches THEN {"ok", "error"}
  ELSE {"ok", "raise"}

\* utils.py 50-68: a @mainthreadify function runs in the caller when the
\* tick is not registered, otherwise as a queued closure on the host thread.
RunsOn(name, isRegistered) ==
  IF ToolTable[name].mainthread /\ isRegistered THEN "host" ELSE "caller"

\* What `await function_to_call(**arguments_dict)` can do. A closure that
\* raises on the host thread never sets its Future (utils.py 57-59): the
\* await never completes.
CallOutcomes(name, kwargs, isRegistered) ==
  IF RunsOn(name, isRegistered) = "host"
  THEN { IF o = "raise" THEN "never" ELSE o : o \in BodyOutcomes(name, kwargs) }
  ELSE BodyOutcomes(name, kwargs)

ResultOf(outcome) == IF outcome = "ok" THEN OkResult ELSE ErrorResult

\* lines 230-237
ToolMessageSwappingIdAndName(tool_call, tool_result) ==
  [tool_call_id |-> tool_call.name, role |-> "tool", name |-> tool_call.id,
   content |-> JsonDumps(tool_result)]

ToolMessage(tool_call, tool_result) ==
  [tool_call_id |-> tool_call.id, role |-> "tool", name |-> tool_call.name,
   content |-> JsonDumps(tool_result)]

NoCall == [call |-> 0, name |-> Absent, kwargs |-> {}, on |-> Absent]

\* ------------------------------------------------------ completion_stream
\* lines 128-135: the context message is fetched with `await get_context()`.
BuildRequest ==
  /\ pc = "BUILDING_REQUEST"
  /\ \E outcome \in CallOutcomes("get_context", {}, registered) :
         CASE outcome = "ok" ->
                /\ messages' = Append(messages,
                     [role |-> "system", content |-> "{\"context\": " \o JsonDumps(OkResult) \o "}"])
                /\ pc' = "CALLING_FIRST"
                /\ failure' = failure
           [] outcome = "raise" ->
                /\ pc' = "FAILED"
                /\ failure' = "context_exception"
                /\ messages' = messages
           [] OTHER ->
                /\ pc' = "NEVER_RESUMED"
                /\ UNCHANGED << failure, messages >>
  /\ UNCHANGED << received, received2, yielded, collected_content,
                  collected_tool_calls, i, awaiting, invoked, calls >>
  /\ UNCHANGED << inputVars, dispatcherVars, sideVars, moreVars >>

\* lines 137-146
FirstCall ==
  /\ pc = "CALLING_FIRST"
  /\ calls' = Append(calls, FirstParams(messages))
  /\ pc' = "STREAMING_FIRST"
  /\ UNCHANGED << messages, received, received2, yielded, collected_content,
                  collected_tool_calls, i, awaiting, invoked, failure >>
  /\ UNCHANGED << inputVars, dispatcherVars, sideVars, moreVars >>

\* line 146: litellm.acompletion raises (network, auth, rate limit).
FirstCallFailsRetrying ==
  /\ pc = "CALLING_FIRST"
  /\ Len(calls) < 2
  /\ calls' = Append(calls, FirstParams(messages))
  /\ UNCHANGED << pc, messages, received, received2, yielded, collected_content,
                  collected_tool_calls, i, awaiting, invoked, failure >>
  /\ UNCHANGED << inputVars, dispatcherVars, sideVars, moreVars >>

FirstCallFails ==
  /\ pc = "CALLING_FIRST"
  /\ calls' = Append(calls, FirstParams(messages))
  /\ pc' = "FAILED"
  /\ failure' = "provider_error"
  /\ UNCHANGED << messages, received, received2, yielded, collected_content,
                  collected_tool_calls, i, awaiting, invoked >>
  /\ UNCHANGED << inputVars, dispatcherVars, sideVars, moreVars >>

\* lines 157-160: a content token is collected and yielded at once.
ForwardDropping(tokens, chunk) == tokens
Forward(tokens, chunk) ==
  IF chunk.content # Absent THEN Append(tokens, chunk.content) ELSE tokens

\* lines 153-193: one chunk of the first stream.
FirstChunk ==
  /\ pc = "STREAMING_FIRST"
  /\ Len(received) < MaxChunks
  /\ \E chunk \in FirstChunks :
       /\ received' = Append(received, chunk)
       /\ collected_content' = Forward(collected_content, chunk)
       /\ yielded' = Forward(yielded, chunk)
       /\ collected_tool_calls' = AccumulateDeltas(collected_tool_calls, chunk.tool_calls)
  /\ UNCHANGED << pc, messages, received2, i, awaiting, invoked, calls, failure >>
  /\ UNCHANGED << inputVars, dispatcherVars, sideVars, moreVars >>

\* lines 156-160: the generator is suspended at `yield token`; the caller
\* asks for no further token. Nothing in completion_stream runs on
\* abandonment: there is no try/finally around the loop.
AbandonFlushing ==
  /\ pc = "STREAMING_FIRST"
  /\ received # << >>
  /\ received[Len(received)].content # Absent
  /\ pc' = "ABANDONED"
  /\ messages' = Append(messages, AssistantMessage(collected_content, collected_tool_calls))
  /\ UNCHANGED << received, received2, yielded, collected_content,
                  collected_tool_calls, i, awaiting, invoked, calls, failure >>
  /\ UNCHANGED << inputVars, dispatcherVars, sideVars, moreVars >>

Abandon ==
  /\ pc = "STREAMING_FIRST"
  /\ received # << >>
  /\ received[Len(received)].content # Absent
  /\ pc' = "ABANDONED"
  /\ UNCHANGED << messages, received, received2, yielded, collected_content,
                  collected_tool_calls, i, awaiting, invoked, calls, failure >>
  /\ UNCHANGED << inputVars, dispatcherVars, sideVars, moreVars >>

\* line 153: the stream raises while it is being consumed.
FirstStreamFails ==
  /\ pc = "STREAMING_FIRST"
  /\ pc' = "FAILED"
  /\ failure' = "provider_error"
  /\ UNCHANGED << messages, received, received2, yielded, collected_content,
                  collected_tool_calls, i, awaiting, invoked, calls >>
  /\ UNCHANGED << inputVars, dispatcherVars, sideVars, moreVars >>

\* lines 195-207: the stream is exhausted.
FirstStreamEnds ==
  /\ pc = "STREAMING_FIRST"
  /\ messages' = Append(messages, AssistantMessage(collected_content, collected_tool_calls))
  /\ pc' = IF collected_tool_calls = << >> THEN "STREAMING_DONE" ELSE "EXECUTING_TOOLS"
  /\ i' = 1
  /\ UNCHANGED << received, received2, yielded, collected_content,
                  collected_tool_calls, awaiting, invoked, calls, failure >>
  /\ UNCHANGED << inputVars, dispatcherVars, sideVars, moreVars >>

SkipUnknownToolAborting ==
  /\ pc = "EXECUTING_TOOLS"
  /\ i <= Len(collected_tool_calls)
  /\ Resolve(collected_tool_calls[i].name) = Absent
  /\ pc' = "FAILED"
  /\ failure' = "unknown_tool"
  /\ UNCHANGED << messages, received, received2, yielded, collected_content,
                  collected_tool_calls, i, awaiting, invoked, calls >>
  /\ UNCHANGED << inputVars, dispatcherVars, sideVars, moreVars >>

\* lines 209-214: an unknown name is logged and skipped.
SkipUnknownTool ==
  /\ pc = "EXECUTING_TOOLS"
  /\ i <= Len(collected_tool_calls)
  /\ Resolve(collected_tool_calls[i].name) = Absent
  /\ i' = i + 1
  /\ UNCHANGED << pc, messages, received, received2, yielded, collected_content,
                  collected_tool_calls, awaiting, invoked, calls, failure >>
  /\ UNCHANGED << inputVars, dispatcherVars, sideVars, moreVars >>

\* lines 210-225: the arguments are decoded and the tool is called.
InvokeToolWithoutAwaiting ==
  /\ pc = "EXECUTING_TOOLS"
  /\ i <= Len(collected_tool_calls)
  /\ LET tool_call == collected_tool_calls[i]
         function_to_call == Resolve(tool_call.name)
     IN  /\ function_to_call # Absent
         /\ invoked' = Append(invoked,
                          [call |-> i, name |-> function_to_call,
                           kwargs |-> ArgumentsDict(tool_call.arguments),
                           on |-> RunsOn(function_to_call, registered)])
  /\ i' = i + 1
  /\ UNCHANGED << pc, messages, received, received2, yielded, collected_content,
                  collected_tool_calls, awaiting, calls, failure >>
  /\ UNCHANGED << inputVars, dispatcherVars, sideVars, moreVars >>

InvokeTool ==
  /\ pc = "EXECUTING_TOOLS"
  /\ i <= Len(collected_tool_calls)
  /\ LET tool_call == collected_tool_calls[i]
         function_to_call == Resolve(tool_call.name)
     IN  /\ function_to_call # Absent
         /\ awaiting' = [call |-> i, name |-> function_to_call,
                         kwargs |-> ArgumentsDict(tool_call.arguments),
                         on |-> RunsOn(function_to_call, registered)]
  /\ invoked' = Append(invoked, awaiting')
  /\ pc' = "AWAITING_TOOL"
  /\ UNCHANGED << messages, received, received2, yielded, collected_content,
                  collected_tool_calls, i, calls, failure >>
  /\ UNCHANGED << inputVars, dispatcherVars, sideVars, moreVars >>

\* lines 226-237: the tool returned a Result; its message is appended.
ToolReturns ==
  /\ pc = "AWAITING_TOOL"
  /\ \E outcome \in CallOutcomes(awaiting.name, awaiting.kwargs, awaiting.on = "host")
                       \cap {"ok", "error"} :
       messages' = Append(messages, ToolMessage(collected_tool_calls[i], ResultOf(outcome)))
  /\ i' = i + 1
  /\ awaiting' = NoCall
  /\ pc' = "EXECUTING_TOOLS"
  /\ UNCHANGED << received, received2, yielded, collected_content,
                  collected_tool_calls, invoked, calls, failure >>
  /\ UNCHANGED << inputVars, dispatcherVars, sideVars, moreVars >>

\* lines 225-228: no try/except surrounds the call; the exception leaves
\* completion_stream.
ToolRaises ==
  /\ pc = "AWAITING_TOOL"
  /\ "raise" \in CallOutcomes(awaiting.name, awaiting.kwargs, awaiting.on = "host")
  /\ pc' = "FAILED"
  /\ failure' = "tool_exception"
  /\ UNCHANGED << messages, received, received2, yielded, collected_content,
                  collected_tool_calls, i, awaiting, invoked, calls >>
  /\ UNCHANGED << inputVars, dispatcherVars, sideVars, moreVars >>

\* utils.py 56-66: the queued closure raised on the host thread, its Future
\* is never set and `await future` never completes.
ToolNeverResumes ==
  /\ pc = "AWAITING_TOOL"
  /\ "never" \in CallOutcomes(awaiting.name, awaiting.kwargs, awaiting.on = "host")
  /\ pc' = "NEVER_RESUMED"
  /\ UNCHANGED << messages, received, received2, yielded, collected_content,
                  collected_tool_calls, i, awaiting, invoked, calls, failure >>
  /\ UNCHANGED << inputVars, dispatcherVars, sideVars, moreVars >>

\* lines 239-247
SecondCall ==
  /\ pc = "EXECUTING_TOOLS"
  /\ i > Len(collected_tool_calls)
  /\ calls' = Append(calls, SecondParams(messages))
  /\ pc' = "STREAMING_SECOND"
  /\ UNCHANGED << messages, received, received2, yielded, collected_content,
                  collected_tool_calls, i, awaiting, invoked, failure >>
  /\ UNCHANGED << inputVars, dispatcherVars, sideVars, moreVars >>

\* line 247: litellm.acompletion raises.
SecondCallFails ==
  /\ pc = "EXECUTING_TOOLS"
  /\ i > Len(collected_tool_calls)
  /\ calls' = Append(calls, SecondParams(messages))
  /\ pc' = "FAILED"
  /\ failure' = "provider_error"
  /\ UNCHANGED << messages, received, received2, yielded, collected_content,
                  collected_tool_calls, i, awaiting, invoked >>
  /\ UNCHANGED << inputVars, dispatcherVars, sideVars, moreVars >>

\* lines 249-252: only content is read from a chunk of the second stream.
SecondChunk ==
  /\ pc = "STREAMING_SECOND"
  /\ Len(received2) < MaxSecond
  /\ \E chunk \in SecondChunks :
       /\ received2' = Append(received2, chunk)
       /\ yielded' = Forward(yielded, chunk)
  /\ UNCHANGED << pc, messages, received, collected_content, collected_tool_calls,
                  i, awaiting, invoked, calls, failure >>
  /\ UNCHANGED << inputVars, dispatcherVars, sideVars, moreVars >>

\* line 249: the second stream raises while it is being consumed.
SecondStreamFails ==
  /\ pc = "STREAMING_SECOND"
  /\ pc' = "FAILED"
  /\ failure' = "provider_error"
  /\ UNCHANGED << messages, received, received2, yielded, collected_content,
                  collected_tool_calls, i, awaiting, invoked, calls >>
  /\ UNCHANGED << inputVars, dispatcherVars, sideVars, moreVars >>

\* line 249: the second stream is exhausted and the generator returns.
SecondStreamEnds ==
  /\ pc = "STREAMING_SECOND"
  /\ pc' = "STREAMING_DONE"
  /\ UNCHANGED << messages, received, received2, yielded, collected_content,
                  collected_tool_calls, i, awaiting, invoked, calls, failure >>
  /\ UNCHANGED << inputVars, dispatcherVars, sideVars, moreVars >>

\* ------------------------------------------------------------ dispatcher
Callers == 1..NumCallers

\* utils.py 23: INTERVAL = 0, the host timer runs the tick again at once.
INTERVAL == 0

Idle == [pc |-> "idle", closure |-> 0, timeout |-> Absent, got |-> Absent]

\* utils.py 58: lambda: conc_future.set_result(function(*args, **kwargs)).
\* `raises` tells whether function(*args, **kwargs) raises.
Closure(caller, raises) == [caller |-> caller, raises |-> raises]

\* utils.py 58: what function(*args, **kwargs) returns on the host thread;
\* every dispatched call returns a value of its own.
ReturnValue(closure) == "value " \o ToString(closure)

\* queue.Queue.put
Put(queue, closure) == Append(queue, closure)

\* queue.Queue.get: what stays queued once the oldest closure is taken.
RemainingDropping(queue) == IF Len(queue) > 1 THEN Tail(Tail(queue)) ELSE Tail(queue)
Remaining(queue) == Tail(queue)

\* utils.py 50-54: the tick is not registered, the function runs in the
\* caller.
CallDirectQueueing(c) ==
  /\ callers[c].pc = "idle"
  /\ ~registered
  /\ \E raises \in BOOLEAN :
       callers' = [callers EXCEPT ![c] =
            [Idle EXCEPT !.got = IF raises THEN "exception" ELSE "value"]]
  /\ execution_queue' = Put(execution_queue, 0)
  /\ UNCHANGED << futures, closures, tick, function,
                  queued_at_start, executed, returned, escaped, registered >>
  /\ UNCHANGED << inputVars, turnVars, sideVars, moreVars >>

CallDirect(c) ==
  /\ callers[c].pc = "idle"
  /\ ~registered
  /\ \E raises \in BOOLEAN :
       callers' = [callers EXCEPT ![c] =
            [Idle EXCEPT !.got = IF raises THEN "exception" ELSE "value"]]
  /\ UNCHANGED << execution_queue, futures, closures, tick, function,
                  queued_at_start, executed, returned, escaped, registered >>
  /\ UNCHANGED << inputVars, turnVars, sideVars, moreVars >>

\* utils.py 56-66 and 75: a Future is created, the closure is queued, and
\* the caller awaits the Future (running loop) or blocks on it (no loop).
Dispatch(c) ==
  /\ callers[c].pc = "idle"
  /\ registered
  /\ Len(closures) < MaxClosures
  /\ \E raises \in BOOLEAN, hasLoop \in BOOLEAN, timeout \in {Absent, "seconds"} :
       /\ hasLoop => timeout = Absent
       /\ closures' = Append(closures, Closure(c, raises))
       /\ callers' = [callers EXCEPT ![c] =
            [pc |-> IF hasLoop THEN "awaiting" ELSE "blocking",
             closure |-> Len(closures) + 1, timeout |-> timeout, got |-> Absent]]
  /\ futures' = Append(futures, "pending")
  /\ execution_queue' = Put(execution_queue, Len(closures) + 1)
  /\ UNCHANGED << tick, function, queued_at_start, executed, returned, escaped,
                  registered >>
  /\ UNCHANGED << inputVars, turnVars, sideVars, moreVars >>

\* utils.py 66-68 and 75-77: the Future has a result, the caller returns it.
ResumeDiscardingResult(c) ==
  /\ callers[c].pc \in {"awaiting", "blocking"}
  /\ futures[callers[c].closure] # "pending"
  /\ callers' = [callers EXCEPT ![c] = Idle]
  /\ UNCHANGED << execution_queue, futures, closures, tick, function,
                  queued_at_start, executed, returned, escaped, registered >>
  /\ UNCHANGED << inputVars, turnVars, sideVars, moreVars >>

Resume(c) ==
  /\ callers[c].pc \in {"awaiting", "blocking"}
  /\ futures[callers[c].closure] # "pending"
  /\ callers' = [callers EXCEPT ![c] =
       [Idle EXCEPT !.got = futures[callers[c].closure]]]
  /\ UNCHANGED << execution_queue, futures, closures, tick, function,
                  queued_at_start, executed, returned, escaped, registered >>
  /\ UNCHANGED << inputVars, turnVars, sideVars, moreVars >>

\* utils.py 75: conc_future.result(timeout) raises TimeoutError.
TimeOutCancelling(c) ==
  /\ callers[c].pc = "blocking"
  /\ callers[c].timeout # Absent
  /\ futures[callers[c].closure] = "pending"
  /\ callers' = [callers EXCEPT ![c] = [Idle EXCEPT !.got = "timeout"]]
  /\ execution_queue' = SelectSeq(execution_queue, LAMBDA k : k # callers[c].closure)
  /\ UNCHANGED << futures, closures, tick, function,
                  queued_at_start, executed, returned, escaped, registered >>
  /\ UNCHANGED << inputVars, turnVars, sideVars, moreVars >>

TimeOut(c) ==
  /\ callers[c].pc = "blocking"
  /\ callers[c].timeout # Absent
  /\ futures[callers[c].closure] = "pending"
  /\ callers' = [callers EXCEPT ![c] = [Idle EXCEPT !.got = "timeout"]]
  /\ UNCHANGED << execution_queue, futures, closures, tick, function,
                  queued_at_start, executed, returned, escaped, registered >>
  /\ UNCHANGED << inputVars, turnVars, sideVars, moreVars >>

\* The host timer calls execute_queued_functions.
TickBegins ==
  /\ tick = "idle"
  /\ registered
  /\ tick' = "loop"
  /\ queued_at_start' = execution_queue
  /\ returned' = << >>
  /\ UNCHANGED << execution_queue, futures, closures, callers, function, executed,
                  escaped, registered >>
  /\ UNCHANGED << inputVars, turnVars, sideVars, moreVars >>

\* utils.py 19-20: while not execution_queue.empty(): function = get()
TickGets ==
  /\ tick = "loop"
  /\ execution_queue # << >>
  /\ function' = Head(execution_queue)
  /\ execution_queue' = Remaining(execution_queue)
  /\ tick' = "call"
  /\ UNCHANGED << futures, closures, callers, queued_at_start, executed, returned,
                  escaped, registered >>
  /\ UNCHANGED << inputVars, turnVars, sideVars, moreVars >>

\* utils.py 22 and 58: function() returns and sets the Future's result.
TickCallReturns ==
  /\ tick = "call"
  /\ ~closures[function].raises
  /\ futures' = [futures EXCEPT ![function] = ReturnValue(function)]
  /\ executed' = Append(executed, function)
  /\ function' = 0
  /\ tick' = "loop"
  /\ UNCHANGED << execution_queue, closures, callers, queued_at_start,
                  returned, escaped, registered >>
  /\ UNCHANGED << inputVars, turnVars, sideVars, moreVars >>

\* utils.py 22 and 58: function() raises; nothing between the closure and
\* the host catches it, so it leaves execute_queued_functions before
\* set_result and before `return INTERVAL`. The host may drop a timer whose
\* function raised.
TickCallRaises ==
  /\ tick = "call"
  /\ closures[function].raises
  /\ executed' = Append(executed, function)
  /\ escaped' = Append(escaped, function)
  /\ function' = 0
  /\ queued_at_start' = << >>
  /\ tick' = "idle"
  /\ \E kept \in BOOLEAN : registered' = kept
  /\ UNCHANGED << execution_queue, futures, closures, callers, returned >>
  /\ UNCHANGED << inputVars, turnVars, sideVars, moreVars >>

\* utils.py 19 and 23-24: the queue is empty, the tick returns INTERVAL.
TickReturns ==
  /\ tick = "loop"
  /\ execution_queue = << >>
  /\ returned' = << INTERVAL >>
  /\ queued_at_start' = << >>
  /\ tick' = "idle"
  /\ UNCHANGED << execution_queue, futures, closures, callers, function,
                  executed, escaped, registered >>
  /\ UNCHANGED << inputVars, turnVars, sideVars, moreVars >>

\* tools.py 25-36 and 148-183: a tool that is decorated with @tool only
\* (get_objects, get_object) is an ordinary function: the call runs its
\* body, which reads bpy.data, in the thread of the caller.
Undispatched == { name \in tool_functions : ~ToolTable[name].mainthread }

CallUndispatched(c, name) ==
  /\ callers[c].pc = "idle"
  /\ name \in Undispatched
  /\ RunsOn(name, registered) = "caller"
  /\ callers' = [callers EXCEPT ![c] = [Idle EXCEPT !.pc = "in body"]]
  /\ UNCHANGED << execution_queue, futures, closures, tick, function,
                  queued_at_start, executed, returned, escaped, registered >>
  /\ UNCHANGED << inputVars, turnVars, sideVars, moreVars >>

\* The body returns its Result or raises.
UndispatchedReturns(c) ==
  /\ callers[c].pc = "in body"
  /\ \E raises \in BOOLEAN :
       callers' = [callers EXCEPT ![c] =
            [Idle EXCEPT !.got = IF raises THEN "exception" ELSE "value"]]
  /\ UNCHANGED << execution_queue, futures, closures, tick, function,
                  queued_at_start, executed, returned, escaped, registered >>
  /\ UNCHANGED << inputVars, turnVars, sideVars, moreVars >>

\* The host stops running its timers (shutdown).
HostStops ==
  /\ tick = "idle"
  /\ registered
  /\ registered' = FALSE
  /\ UNCHANGED << execution_queue, futures, closures, callers, tick, function,
                  queued_at_start, executed, returned, escaped >>
  /\ UNCHANGED << inputVars, turnVars, sideVars, moreVars >>

\* -------------------------------------------------------------- _get_tools
\* The functions tools.py defines, in the order it defines them (lines 68,
\* 93, 155, 183, 390, 443, 479, 490); all but the last two carry @tool.
DefinedInModule ==
  << "execute_code", "get_context", "get_objects", "get_object",
     "modify_with_geometry_nodes", "import_file", "get_prompt", "_get_tools" >>

\* Python's order of these names as strings ("_" sorts before the letters).
Alphabetical ==
  << "_get_tools", "execute_code", "get_context", "get_object", "get_objects",
     "get_prompt", "import_file", "modify_with_geometry_nodes" >>
Rank(name) == CHOOSE k \in 1..Len(Alphabetical) : Alphabetical[k] = name
NameBefore(a, b) == Rank(a) < Rank(b)

\* hasattr(func, "__is_tool__"): set by @tool, kept by @mainthreadify's wraps.
IsTool(name) == name \in DOMAIN ToolTable

\* inspect.getmembers(module): the members sorted by name.
GetMembersInDefinitionOrder(names) == names
GetMembers(names) == SortSeq(names, NameBefore)

\* lines 490-504: one declaration per member that is a tool.
Declaration(name) ==
  [type |-> "function",
   function |-> [name |-> name, parameters |-> ToolTable[name].params]]

GetTools(names) ==
  LET found == SelectSeq(GetMembers(names), IsTool)
  IN  [k \in 1..Len(found) |-> Declaration(found[k])]

\* Modules of up to MaxMembers of these functions, in any definition order.
Modules ==
  { m \in UNION { [1..n -> { DefinedInModule[k] : k \in 1..Len(DefinedInModule) }] :
                    n \in 0..MaxMembers } :
      \A j, k \in 1..Len(m) : j # k => m[j] # m[k] }

\* line 507: tools = _get_tools()
DescribeAll ==
  /\ declared' = << GetTools(members) >>
  /\ UNCHANGED << members, api_key, emitted, cache, keyring, last_call, uri,
                  requests, read_result >>
  /\ UNCHANGED << inputVars, turnVars, dispatcherVars, moreVars >>

\* ------------------------------------------------------------------ ApiKey
\* types/api_key.py 9-10
VISIBLE_CHARS_HEAD == 3
MASK_CHAR == "*"

\* The secrets: strings, as the sequences of their characters.
KeyChars == {"k", MASK_CHAR}
Keys == UNION { [1..n -> KeyChars] : n \in 1..MaxKeyLen }

\* lines 16-21
Masked(self) ==
  IF Len(self) <= VISIBLE_CHARS_HEAD THEN self
  ELSE SubSeq(self, 1, VISIBLE_CHARS_HEAD)
       \o [k \in 1..(Len(self) - VISIBLE_CHARS_HEAD) |-> MASK_CHAR]

\* lines 33-34
Reveal(self) == self

\* lines 23-31
Str(self) == Masked(self)
Repr(self) == Str(self)
Format(self, format_spec) == IF format_spec = "raw" THEN Reveal(self) ELSE Masked(self)

Emit(via, text) ==
  /\ emitted' = [via |-> via, text |-> text]
  /\ UNCHANGED << members, declared, api_key, cache, keyring, last_call, uri,
                  requests, read_result >>
  /\ UNCHANGED << inputVars, turnVars, dispatcherVars, moreVars >>

\* str(api_key), repr(api_key), f"{api_key}", f"{api_key:raw}", reveal()
KeyStr == Emit("str", Str(api_key))
KeyRepr == Emit("repr", Repr(api_key))
KeyFormat == Emit("format", Format(api_key, ""))
KeyFormatRaw == Emit("format:raw", Format(api_key, "raw"))
KeyReveal == Emit("reveal", Reveal(api_key))

\* llm.py 126: logger.info(f"{model=} {api_key=} ...") writes repr(api_key).
LogTurn == Emit("log", Repr(api_key))

\* llm.py 146 and 247: acompletion(..., api_key=api_key.reveal())
CallProvider == Emit("provider", Reveal(api_key))

\* -------------------------------------------------------- ApiKeyRepository
Providers == {"openai", "test"}
StoredKeys == {"sk-1", "sk-2"}

\* api_key_repository.py 23: the key-ring user that holds the provider list.
PROVIDER_LIST_USERNAME == "__providers__"

\* dict.get / keyring.get_password: the value, or None.
Lookup(dict, key) == IF key \in DOMAIN dict THEN dict[key] ELSE Absent

\* dict[key] = value / keyring.set_password
Store(dict, key, value) == (key :> value) @@ dict

\* json.dumps of a list of provider names, and json.loads of such a text.
RECURSIVE DumpNames(_)
DumpNames(names) ==
  IF names = << >> THEN ""
  ELSE "\"" \o Head(names) \o "\""
       \o (IF Len(names) > 1 THEN ", " ELSE "") \o DumpNames(Tail(names))
DumpProviderList(names) == "[" \o DumpNames(names) \o "]"

ProviderLists ==
  { l \in UNION { [1..n -> Providers] : n \in 0..Cardinality(Providers) } :
      \A j, k \in 1..Len(l) : j # k => l[j] # l[k] }

\* lines 32-43
LoadProviderList(ring) ==
  LET raw == Lookup(ring, PROVIDER_LIST_USERNAME)
  IN  IF raw = Absent THEN << >>
      ELSE IF \E l \in ProviderLists : DumpProviderList(l) = raw
      THEN CHOOSE l \in ProviderLists : DumpProviderList(l) = raw
      ELSE << >>

\* lines 52-58: the cache after _ensure_loaded(provider).
EnsureLoaded(dict, ring, provider) ==
  IF provider \in DOMAIN dict THEN dict
  ELSE IF Lookup(ring, provider) # Absent
  THEN Store(dict, provider, Lookup(ring, provider))
  ELSE dict

RECURSIVE EnsureAllLoaded(_, _, _)
EnsureAllLoaded(dict, ring, names) ==
  IF names = << >> THEN dict
  ELSE EnsureAllLoaded(EnsureLoaded(dict, ring, Head(names)), ring, Tail(names))

RepositoryFrame ==
  /\ UNCHANGED << members, declared, api_key, emitted, uri, requests, read_result >>
  /\ UNCHANGED << inputVars, turnVars, dispatcherVars >>
  /\ UNCHANGED << accumulatorVars, websocketVars, visualizerVars, tested, response >>

\* lines 64-77
SaveKey(provider, key) ==
  /\ cache' = Store(cache, provider, key)
  /\ LET ring == Store(keyring, provider, Reveal(key))
         providers == LoadProviderList(ring)
     IN  keyring' =
           IF \E k \in 1..Len(providers) : providers[k] = provider THEN ring
           ELSE Store(ring, PROVIDER_LIST_USERNAME,
                      DumpProviderList(Append(providers, provider)))
  /\ last_call' = [op |-> "save", provider |-> provider, key |-> key, result |-> Absent]

Save(provider, key) ==
  /\ SaveKey(provider, key)
  /\ UNCHANGED listed
  /\ RepositoryFrame

\* lines 80-84
RepositoryGet(provider) ==
  /\ cache' = EnsureLoaded(cache, keyring, provider)
  /\ last_call' = [op |-> "get", provider |-> provider, key |-> Absent,
                   result |-> Lookup(cache', provider)]
  /\ keyring' = keyring
  /\ UNCHANGED listed
  /\ RepositoryFrame

\* lines 87-93
RepositoryListReturningCache ==
  /\ cache' = EnsureAllLoaded(cache, keyring, LoadProviderList(keyring))
  /\ last_call' = [op |-> "list", provider |-> Absent, key |-> Absent, result |-> Absent]
  /\ listed' = [shares |-> TRUE, entries |-> cache', mutated |-> 0]
  /\ keyring' = keyring
  /\ RepositoryFrame

RepositoryList ==
  /\ cache' = EnsureAllLoaded(cache, keyring, LoadProviderList(keyring))
  /\ last_call' = [op |-> "list", provider |-> Absent, key |-> Absent, result |-> Absent]
  /\ listed' = [shares |-> FALSE, entries |-> cache', mutated |-> 0]
  /\ keyring' = keyring
  /\ RepositoryFrame

\* line 93: the caller of list changes the mapping it was given (here it
\* removes an entry). The mapping is the cache itself only if list
\* returned the cache rather than dict(cls._cache).
Without(dict, key) == [k \in (DOMAIN dict) \ {key} |-> dict[k]]

CallerMutates(provider) ==
  /\ provider \in DOMAIN listed.entries
  /\ listed' = [listed EXCEPT !.entries = Without(@, provider), !.mutated = @ + 1]
  /\ cache' = IF listed.shares THEN Without(cache, provider) ELSE cache
  /\ UNCHANGED << keyring, last_call >>
  /\ RepositoryFrame

\* tests/repositories/test_api_key_repository.py 18 calls
\* ApiKeyRepository.delete; the class (lines 13-93) defines save, get and
\* list only, so the call raises AttributeError and changes nothing.
Delete(provider) ==
  /\ last_call' = [op |-> "delete", provider |-> provider, key |-> Absent,
                   result |-> "AttributeError"]
  /\ UNCHANGED << cache, keyring, listed >>
  /\ RepositoryFrame

\* llm.py 17-36: the default model of a provider, None when it has none.
model_configs ==
  << [provider |-> "openai", model |-> "gpt-5", default |-> TRUE],
     [provider |-> "openai", model |-> "gpt-5-mini", default |-> FALSE],
     [provider |-> "tutorial", model |-> "Tutorial", default |-> TRUE] >>

DefaultModel(provider) ==
  LET found == SelectSeq(model_configs,
                         LAMBDA m : m.provider = provider /\ m.default)
  IN  IF found = << >> THEN Absent ELSE Head(found).model

\* api.py 84-95: the verification request to the provider.
TestRequest(provider, key, raised) ==
  [model |-> provider \o "/" \o DefaultModel(provider), api_key |-> Reveal(key),
   raised |-> raised]

ApiFrame ==
  /\ UNCHANGED << members, declared, api_key, emitted, uri, requests, read_result, listed >>
  /\ UNCHANGED << inputVars, turnVars, dispatcherVars, accumulatorVars, websocketVars,
                  visualizerVars >>

\* api.py 72-107: save_api_key. The handler has no await: it runs from its
\* first line to its return without another handler in between.
SaveApiKeyBeforeVerifying(provider, key) ==
  /\ response = << >>
  /\ SaveKey(provider, key)
  /\ \E raised \in BOOLEAN :
       IF DefaultModel(provider) = Absent
       THEN /\ tested' = << >>
            /\ response' = << [success |-> FALSE,
                               message |-> "API key verification failed: 400"] >>
       ELSE /\ tested' = << TestRequest(provider, key, raised) >>
            /\ response' = << [success |-> ~raised,
                               message |-> IF raised
                                           THEN "API key verification failed"
                                           ELSE "API key verified and saved"] >>
  /\ ApiFrame

SaveApiKey(provider, key) ==
  /\ response = << >>
  /\ \E raised \in BOOLEAN :
       IF DefaultModel(provider) = Absent
       THEN /\ tested' = << >>
            /\ response' = << [success |-> FALSE,
                               message |-> "API key verification failed: 400"] >>
            /\ UNCHANGED << cache, keyring, last_call >>
       ELSE IF raised
       THEN /\ tested' = << TestRequest(provider, key, TRUE) >>
            /\ response' = << [success |-> FALSE,
                               message |-> "API key verification failed"] >>
            /\ UNCHANGED << cache, keyring, last_call >>
       ELSE /\ tested' = << TestRequest(provider, key, FALSE) >>
            /\ SaveKey(provider, key)
            /\ response' = << [success |-> TRUE,
                               message |-> "API key verified and saved"] >>
  /\ ApiFrame

\* The response is sent to the client; the next request can be handled.
SendResponse ==
  /\ response # << >>
  /\ response' = << >>
  /\ tested' = << >>
  /\ UNCHANGED << cache, keyring, last_call >>
  /\ ApiFrame

\* line 26: a new process starts with an empty cache; the key-ring stays.
Restart ==
  /\ cache # << >>
  /\ cache' = << >>
  /\ last_call' = NoOperation
  /\ keyring' = keyring
  /\ listed' = NoListing
  /\ RepositoryFrame

\* ---------------------------------------------------- handle_read_resource
\* The characters of a path, and the locators: uri.host is "" and uri.path
\* is empty when the locator has none.
PathChars == {"%", "2", "5", "x"}
HexDigits == {"2", "5"}
Paths ==
  { << >> } \cup
  { << "/" >> \o tail : tail \in UNION { [1..n -> PathChars] : n \in 0..MaxPath } }
Locators == [scheme : {"blender", "http"}, host : {"", "objects"}, path : Paths]

\* The character a percent escape stands for.
Unescaped(high, low) ==
  CASE high = "2" /\ low = "2" -> "\""
    [] high = "2" /\ low = "5" -> "%"
    [] high = "5" /\ low = "2" -> "R"
    [] OTHER -> "U"

\* urllib.parse.unquote: every %XX with two hex digits is replaced, once;
\* any other "%" stays.
UnquoteNothing(string) == string
RECURSIVE Unquote(_)
Unquote(string) ==
  IF string = << >> THEN << >>
  ELSE IF /\ Head(string) = "%"
          /\ Len(string) >= 3
          /\ string[2] \in HexDigits
          /\ string[3] \in HexDigits
  THEN << Unescaped(string[2], string[3]) >> \o Unquote(SubSeq(string, 4, Len(string)))
  ELSE << Head(string) >> \o Unquote(Tail(string))

\* blender_client.py 67-69: the message get_resource sends to Blender.
GetResourceRequest(resource_type, name) ==
  [type |-> "get_resource", resource_type |-> resource_type, name |-> name]

\* blender_mcp_senpai/server.py 125-143
HandleReadResource ==
  /\ read_result = Absent
  /\ uri # NoUri
  /\ IF uri.scheme # "blender"
     THEN /\ read_result' = "ValueError: Unsupported scheme"
          /\ requests' = requests
     ELSE IF uri.host # "" /\ uri.path # << >>
     THEN /\ requests' = Append(requests,
                 GetResourceRequest(uri.host, Unquote(Tail(uri.path))))
          /\ read_result' = "contents"
     ELSE /\ read_result' = "ValueError: Unsupported resource"
          /\ requests' = requests
  /\ UNCHANGED << members, declared, api_key, emitted, cache, keyring, last_call, uri >>
  /\ UNCHANGED << inputVars, turnVars, dispatcherVars, moreVars >>

\* ------------------------------------------- the accumulator on its own
\* llm.py 163-193 for the deltas a provider can send: any index, with or
\* without an id, with or without a type, and with a name fragment, an
\* arguments fragment or neither.
TypedDelta(index, id, type, name, arguments) ==
  [index |-> index, id |-> id, type |-> type, name |-> name, arguments |-> arguments]

Fragments == { << Absent, Absent >>, << "get_", Absent >>, << Absent, "{" >> }

TypedDeltas ==
  { TypedDelta(ix, id, type, f[1], f[2]) :
      ix \in Indices, id \in {Absent, "call_1", "call_2"},
      type \in {Absent, "function", "custom"}, f \in Fragments }

DeltaStreams == UNION { [1..n -> TypedDeltas] : n \in 0..MaxDeltas }

\* lines 164-193: the loop merges the next delta of the stream.
AccumulateNext ==
  /\ tool_call_deltas # << >>
  /\ accumulated' = AccumulateDelta(accumulated, Head(tool_call_deltas))
  /\ consumed' = Append(consumed, Head(tool_call_deltas))
  /\ tool_call_deltas' = Tail(tool_call_deltas)
  /\ UNCHANGED << inputVars, turnVars, dispatcherVars, sideVars, apiVars, websocketVars,
                  visualizerVars >>

\* --------------------------------------------------- websocket_endpoint
\* extension/blender_senpai/app.py. A frame is a text the client sent: JSON
\* or not, with the fields of BlenderCommand; None and "" are Absent.
Frame(type, code, resource_type, name, path) ==
  [json |-> TRUE, type |-> type, code |-> code, resource_type |-> resource_type,
   name |-> name, path |-> path]

NotJson ==
  [json |-> FALSE, type |-> Absent, code |-> Absent, resource_type |-> Absent,
   name |-> Absent, path |-> Absent]

\* ASGI's websocket.disconnect message.
Disconnect ==
  [json |-> FALSE, type |-> "websocket.disconnect", code |-> Absent,
   resource_type |-> Absent, name |-> Absent, path |-> Absent]

\* lines 12-14: the Literal of BlenderCommand.type.
CommandTypes == {"get_resources", "get_resource", "execute_code", "import_file", "get_prompt"}

\* line 6: the names app.py imports from tools.py.
Imported == {"execute_code", "get_object", "get_objects", "import_file"}

\* bpy.data.objects of the scene.
SceneObjects == {"Cube"}

Frames ==
  { Frame("execute_code", "print(1)", Absent, Absent, Absent),
    Frame("execute_code", Absent, Absent, Absent, Absent),
    Frame("get_resources", Absent, Absent, Absent, Absent),
    Frame("get_resource", Absent, "objects", "Cube", Absent),
    Frame("get_resource", Absent, "objects", "Lamp", Absent),
    Frame("get_resource", Absent, "materials", "Wood", Absent),
    Frame("import_file", Absent, Absent, Absent, "/tmp/a.glb"),
    Frame("import_file", Absent, Absent, Absent, Absent),
    Frame("get_prompt", Absent, Absent, Absent, Absent),
    Frame("shutdown", Absent, Absent, Absent, Absent),
    NotJson }

\* lines 27-28: receive_json raises on a text that is not JSON, and
\* model_validate on a type outside the Literal.
Validates(data) == data.json /\ data.type \in CommandTypes

\* lines 31-56: what the match statement does with a validated command:
\* it sends a result, or the branch raises, or the branch's condition is
\* false and the iteration ends with nothing sent.
Sends(result) == [kind |-> "send", result |-> << result >>]
Raises == [kind |-> "exception", result |-> << >>]
Nothing == [kind |-> "nothing", result |-> << >>]

Handled(command) ==
  CASE command.type = "execute_code" ->
         IF command.code # Absent THEN {Sends(OkResult), Sends(ErrorResult)} ELSE {Nothing}
    [] command.type = "get_resources" -> {Sends(OkResult)}
    [] command.type = "get_resource" ->
         IF command.resource_type = "objects" /\ command.name # Absent
         THEN (IF command.name \in SceneObjects THEN {Sends(OkResult)} ELSE {Raises})
         ELSE {Nothing}
    [] command.type = "import_file" ->
         IF command.path # Absent THEN {Sends(OkResult), Sends(ErrorResult)} ELSE {Nothing}
    [] command.type = "get_prompt" ->
         IF "get_prompt" \in Imported THEN {Sends(OkResult)} ELSE {Raises}

\* line 59
ErrorMessage == [type |-> "error", data |-> "str(e)"]

Log(data, outcome) == [frame |-> data, outcome |-> outcome]

WebSocketFrame ==
  /\ UNCHANGED << inputVars, turnVars, dispatcherVars, sideVars >>
  /\ UNCHANGED << accumulatorVars, apiVars, visualizerVars >>

\* blender_client.py 45-50: _send_message sends the message, then waits.
\* MaxCommands bounds the requests of one connection.
ClientSends(data) ==
  /\ client.pc = "idle"
  /\ client.requests < MaxCommands
  /\ ws_frames' = Append(ws_frames, data)
  /\ client' = [client EXCEPT !.pc = "waiting", !.requests = @ + 1, !.response = << >>]
  /\ UNCHANGED << ws_sent, served, endpoint >>
  /\ WebSocketFrame

\* blender_client.py 51-53: recv returns the next message of the connection.
ClientReceives ==
  /\ client.pc = "waiting"
  /\ client.read < Len(ws_sent)
  /\ client' = [client EXCEPT !.pc = "idle", !.read = @ + 1,
                              !.response = << ws_sent[client.read + 1] >>]
  /\ UNCHANGED << ws_frames, ws_sent, served, endpoint >>
  /\ WebSocketFrame

\* The client's process ends, or it closes the connection.
ClientDisconnects ==
  /\ client.pc # "closed"
  /\ client' = [client EXCEPT !.pc = "closed"]
  /\ ws_frames' = Append(ws_frames, Disconnect)
  /\ UNCHANGED << ws_sent, served, endpoint >>
  /\ WebSocketFrame

\* send_json towards a client that is gone raises. Raised in the try block
\* it is caught at line 57 and line 59 raises again; that exception leaves
\* the loop: a WebSocketDisconnect is caught at line 63 and the endpoint
\* returns, any other exception leaves the endpoint.
SendJsonFails(data) ==
  /\ client.pc = "closed"
  /\ served' = Append(served, Log(data, "gone"))
  /\ endpoint' \in {"returned", "raised"}
  /\ UNCHANGED ws_sent

\* lines 27-28 and 57-59: a frame that is not a command. The exception is
\* caught, the error message is sent and the loop goes on.
ReceiveInvalidLeaving ==
  /\ endpoint = "receive"
  /\ ws_frames # << >>
  /\ Head(ws_frames) # Disconnect
  /\ ~Validates(Head(ws_frames))
  /\ ws_frames' = Tail(ws_frames)
  /\ served' = Append(served, Log(Head(ws_frames), "error"))
  /\ endpoint' = "raised"
  /\ UNCHANGED << ws_sent, client >>
  /\ WebSocketFrame

ReceiveInvalid ==
  /\ endpoint = "receive"
  /\ ws_frames # << >>
  /\ Head(ws_frames) # Disconnect
  /\ ~Validates(Head(ws_frames))
  /\ ws_frames' = Tail(ws_frames)
  /\ \/ /\ ws_sent' = Append(ws_sent, ErrorMessage)
        /\ served' = Append(served, Log(Head(ws_frames), "error"))
        /\ endpoint' = "receive"
     \/ SendJsonFails(Head(ws_frames))
  /\ UNCHANGED client
  /\ WebSocketFrame

\* lines 27-29: a command was received and validated.
ReceiveCommand ==
  /\ endpoint = "receive"
  /\ ws_frames # << >>
  /\ Validates(Head(ws_frames))
  /\ ws_frames' = Tail(ws_frames)
  /\ served' = Append(served, Log(Head(ws_frames), "handling"))
  /\ endpoint' = "handle"
  /\ UNCHANGED << ws_sent, client >>
  /\ WebSocketFrame

\* lines 27 and 57-64: receive_json raises WebSocketDisconnect, which is an
\* Exception: line 57 catches it, and send_json at line 59 raises.
ReceiveDisconnect ==
  /\ endpoint = "receive"
  /\ ws_frames # << >>
  /\ Head(ws_frames) = Disconnect
  /\ ws_frames' = Tail(ws_frames)
  /\ SendJsonFails(Disconnect)
  /\ UNCHANGED client
  /\ WebSocketFrame

\* lines 31-59: the branch of the command runs.
HandleCommand ==
  /\ endpoint = "handle"
  /\ LET command == served[Len(served)].frame
         Ended(outcome) == [served EXCEPT ![Len(served)] = Log(command, outcome)]
     IN  \E handled \in Handled(command) :
           \/ /\ handled.kind = "nothing"
              /\ served' = Ended("nothing")
              /\ endpoint' = "receive"
              /\ UNCHANGED ws_sent
           \/ /\ handled.kind = "exception"
              /\ ws_sent' = Append(ws_sent, ErrorMessage)
              /\ served' = Ended("error")
              /\ endpoint' = "receive"
           \/ /\ handled.kind = "send"
              /\ ws_sent' = Append(ws_sent, handled.result[1])
              /\ served' = Ended("result")
              /\ endpoint' = "receive"
           \/ /\ handled.kind # "nothing"
              /\ client.pc = "closed"
              /\ served' = Ended("gone")
              /\ endpoint' \in {"returned", "raised"}
              /\ UNCHANGED ws_sent
  /\ UNCHANGED << ws_frames, client >>
  /\ WebSocketFrame

\* ------------------------------------------- modify_with_geometry_nodes
\* tools.py 296-426. The asset file holds the visualizer node groups and
\* the materials their nodes refer to.
AssetNodeGroups == {"BLSP.Ngon"}
AssetMaterials == {"BLSP.Ngon.Material"}
ReferencedBy(node_group_name) ==
  IF node_group_name = "BLSP.Ngon" THEN {"BLSP.Ngon.Material"} ELSE {}

\* bpy.data.objects of the scene, and the names a call can be given.
Objects == {"Cube", "Suzanne"}
ObjectNames == Objects \cup {"Ghost"}
NodeTrees == {"BLSP.Ngon", "Other", "BLSP.Missing"}

Holds(datablocks, name) == \E k \in 1..Len(datablocks) : datablocks[k] = name

\* A set of names as a tuple, as sorted() gives it.
RECURSIVE Sorted(_)
Sorted(names) ==
  IF names = {} THEN << >>
  ELSE LET first == CHOOSE n \in names : TRUE
       IN  << first >> \o Sorted(names \ {first})

Data(groups, mats) == [node_groups |-> groups, materials |-> mats]

\* lines 301-324: _append_datablocks. `dependencies` tells whether the
\* host brings the materials a node group refers to along with the group.
AppendDatablocks(data, node_group_name, material_names, dependencies) ==
  LET appended == node_group_name \in AssetNodeGroups
                    /\ ~Holds(data.node_groups, node_group_name)
      wanted == material_names
                  \cup (IF appended /\ dependencies THEN ReferencedBy(node_group_name) ELSE {})
  IN  Data(IF appended THEN Append(data.node_groups, node_group_name) ELSE data.node_groups,
           data.materials
             \o Sorted({ mn \in wanted : mn \in AssetMaterials /\ ~Holds(data.materials, mn) }))

\* lines 327-345: _scan_required_materials behind its lru_cache.
ScanRequiredMaterials(cached, data, node_group_name) ==
  IF node_group_name \in DOMAIN cached THEN cached[node_group_name]
  ELSE IF ~Holds(data.node_groups, node_group_name) THEN << >>
  ELSE Sorted(ReferencedBy(node_group_name))

\* lines 348-366: _ensure_node_group_and_deps; `raised` when the node
\* group is in neither the file nor the asset.
EnsureNodeGroupAndDeps(data, cached, node_group_name, dependencies) ==
  LET loaded == IF Holds(data.node_groups, node_group_name) THEN data
                ELSE AppendDatablocks(data, node_group_name, {}, dependencies)
  IN  IF ~Holds(loaded.node_groups, node_group_name)
      THEN [raised |-> TRUE, data |-> loaded, cached |-> cached]
      ELSE LET required_mats == ScanRequiredMaterials(cached, loaded, node_group_name)
               missing_mats == { required_mats[k] : k \in 1..Len(required_mats) }
                                  \ { loaded.materials[k] : k \in 1..Len(loaded.materials) }
           IN  [raised |-> FALSE,
                data |-> IF missing_mats # {}
                         THEN AppendDatablocks(loaded, node_group_name, missing_mats,
                                               dependencies)
                         ELSE loaded,
                cached |-> Store(cached, node_group_name, required_mats)]

Modifier(type, node_group) == [name |-> "SenpaiVisualizer", type |-> type, node_group |-> node_group]

\* lines 398-414 for one object name.
AttachAlwaysNew(mods, obj_name, node_group) ==
  IF obj_name \notin DOMAIN mods THEN mods
  ELSE [mods EXCEPT ![obj_name] = Append(@, Modifier("NODES", node_group))]

Attach(mods, obj_name, node_group) ==
  IF obj_name \notin DOMAIN mods THEN mods
  ELSE IF \E k \in 1..Len(mods[obj_name]) :
             mods[obj_name][k].type = "NODES" /\ mods[obj_name][k].node_group = node_group
       THEN mods
       ELSE [mods EXCEPT ![obj_name] = Append(@, Modifier("NODES", node_group))]

\* lines 398-415: the loop over the names.
RECURSIVE AttachAll(_, _, _)
AttachAll(mods, names, node_group) ==
  IF names = << >> THEN mods
  ELSE AttachAll(Attach(mods, Head(names), node_group), Tail(names), node_group)

VisualizerFrame ==
  /\ UNCHANGED << inputVars, turnVars, dispatcherVars, sideVars >>
  /\ UNCHANGED << accumulatorVars, apiVars, websocketVars >>

\* lines 390-426: modify_with_geometry_nodes, on the host thread.
ModifyWithGeometryNodes(names, node_tree) ==
  /\ \E dependencies \in BOOLEAN :
       LET ensured == EnsureNodeGroupAndDeps(Data(node_groups, materials), scanned,
                                             node_tree, dependencies)
       IN  /\ node_groups' = ensured.data.node_groups
           /\ materials' = ensured.data.materials
           /\ scanned' = ensured.cached
           /\ modifiers' = IF ensured.raised THEN modifiers
                           ELSE AttachAll(modifiers, names, node_tree)
           /\ applied' = [names |-> names, node_tree |-> node_tree,
                          status |-> IF ensured.raised THEN "error" ELSE "ok"]
  /\ VisualizerFrame

\* The scenes a call can find: every object with no modifier, another
\* modifier, or a NODES modifier of a node group of the file's own.
ModifierLists ==
  { << >>, << Modifier("SUBSURF", Absent) >>, << Modifier("NODES", "Other") >> }
NameLists == UNION { [1..n -> ObjectNames] : n \in 0..MaxNames }

\* ------------------------------------------------------- specifications
\* line 128: the turn starts from the message list built from its inputs.
TurnInit ==
  /\ pc = "BUILDING_REQUEST"
  /\ messages = BuildMessages(history, message)
  /\ received = << >>
  /\ received2 = << >>
  /\ yielded = << >>
  /\ collected_content = << >>
  /\ collected_tool_calls = << >>
  /\ i = 1
  /\ awaiting = NoCall
  /\ invoked = << >>
  /\ calls = << >>
  /\ failure = Absent

DispatcherInit ==
  /\ execution_queue = << >>
  /\ futures = << >>
  /\ closures = << >>
  /\ callers = [c \in Callers |-> Idle]
  /\ tick = "idle"
  /\ function = 0
  /\ queued_at_start = << >>
  /\ executed = << >>
  /\ returned = << >>
  /\ escaped = << >>
  /\ registered \in BOOLEAN

Init ==
  /\ history = History
  /\ message = UserMessage
  /\ TurnInit
  /\ DispatcherInit
  /\ RegistryIdle
  /\ ApiKeyIdle
  /\ RepositoryIdle
  /\ ResourceIdle
  /\ MoreIdle

\* One turn of completion_stream.
Next ==
  \/ BuildRequest
  \/ FirstCall
  \/ FirstCallFails
  \/ FirstChunk
  \/ FirstStreamFails
  \/ FirstStreamEnds
  \/ SkipUnknownTool
  \/ InvokeTool
  \/ ToolReturns
  \/ ToolRaises
  \/ ToolNeverResumes
  \/ SecondCall
  \/ SecondCallFails
  \/ SecondChunk
  \/ SecondStreamFails
  \/ SecondStreamEnds

Spec == Init /\ [][Next]_vars

\* One turn whose caller may stop consuming the tokens.
AbandonNext == Next \/ Abandon

SpecAbandon == Init /\ [][AbandonNext]_vars

\* Caller threads and the host tick of the dispatcher.
DispatcherNext ==
  \/ \E c \in Callers : CallDirect(c)
  \/ \E c \in Callers : Dispatch(c)
  \/ \E c \in Callers : Resume(c)
  \/ \E c \in Callers : TimeOut(c)
  \/ TickBegins
  \/ TickGets
  \/ TickCallReturns
  \/ TickCallRaises
  \/ TickReturns
  \/ HostStops

SpecDispatcher == Init /\ [][DispatcherNext]_vars

\* The dispatcher together with the tools that are called without it.
HostNext ==
  \/ DispatcherNext
  \/ \E c \in Callers, name \in tool_functions : CallUndispatched(c, name)
  \/ \E c \in Callers : UndispatchedReturns(c)

SpecHost == Init /\ [][HostNext]_vars

\* The scheduling the dispatcher relies on: a registered timer is run again
\* by the host (INTERVAL = 0), a tick that has begun runs to its end, the
\* event loop resumes a coroutine whose Future is done, and a blocked
\* thread wakes up when the Future is done or its timeout expires.
Tick == TickBegins \/ TickGets \/ TickCallReturns \/ TickCallRaises \/ TickReturns

Fairness ==
  /\ WF_vars(Tick)
  /\ \A c \in Callers : WF_vars(Resume(c) \/ TimeOut(c))

SpecDispatcherFair == SpecDispatcher /\ Fairness

\* The tool declarations of a module, for every module.
InitRegistry ==
  /\ history = History
  /\ message = UserMessage
  /\ TurnInit
  /\ DispatcherInit
  /\ members \in Modules
  /\ declared = << >>
  /\ ApiKeyIdle
  /\ RepositoryIdle
  /\ ResourceIdle
  /\ MoreIdle

RegistryNext == DescribeAll

SpecRegistry == InitRegistry /\ [][RegistryNext]_vars

\* What is shown of an API key, for every key.
InitApiKey ==
  /\ history = History
  /\ message = UserMessage
  /\ TurnInit
  /\ DispatcherInit
  /\ RegistryIdle
  /\ api_key \in Keys
  /\ emitted = NoEmission
  /\ RepositoryIdle
  /\ ResourceIdle
  /\ MoreIdle

ApiKeyNext ==
  \/ KeyStr
  \/ KeyRepr
  \/ KeyFormat
  \/ KeyFormatRaw
  \/ KeyReveal
  \/ LogTurn
  \/ CallProvider

SpecApiKey == InitApiKey /\ [][ApiKeyNext]_vars

\* The calls of the API-key repository, in any order.
RepositoryNext ==
  \/ \E provider \in Providers, key \in StoredKeys : Save(provider, key)
  \/ \E provider \in Providers : RepositoryGet(provider)
  \/ RepositoryList
  \/ \E provider \in Providers : CallerMutates(provider)
  \/ \E provider \in Providers : Delete(provider)
  \/ \E provider \in Providers, key \in StoredKeys : SaveApiKey(provider, key)
  \/ SendResponse
  \/ Restart

SpecRepository == Init /\ [][RepositoryNext]_vars

\* A read of a resource, for every locator.
InitResource ==
  /\ history = History
  /\ message = UserMessage
  /\ TurnInit
  /\ DispatcherInit
  /\ RegistryIdle
  /\ ApiKeyIdle
  /\ RepositoryIdle
  /\ uri \in Locators
  /\ requests = << >>
  /\ read_result = Absent
  /\ MoreIdle

ResourceNext == HandleReadResource

SpecResource == InitResource /\ [][ResourceNext]_vars

\* The accumulation of a stream's tool-call deltas, for every stream.
InitAccumulator ==
  /\ history = History
  /\ message = UserMessage
  /\ TurnInit
  /\ DispatcherInit
  /\ RegistryIdle
  /\ ApiKeyIdle
  /\ RepositoryIdle
  /\ ResourceIdle
  /\ tool_call_deltas \in DeltaStreams
  /\ consumed = << >>
  /\ accumulated = << >>
  /\ ApiIdle
  /\ WebSocketIdle
  /\ VisualizerIdle

AccumulatorNext == AccumulateNext

SpecAccumulator == InitAccumulator /\ [][AccumulatorNext]_vars

\* One connection to the WebSocket endpoint and its client.
WebSocketNext ==
  \/ \E data \in Frames : ClientSends(data)
  \/ ClientReceives
  \/ ClientDisconnects
  \/ ReceiveInvalid
  \/ ReceiveCommand
  \/ ReceiveDisconnect
  \/ HandleCommand

SpecWebSocket == Init /\ [][WebSocketNext]_vars

\* Calls of the visualizer tool on a scene, for every scene.
InitVisualizer ==
  /\ history = History
  /\ message = UserMessage
  /\ TurnInit
  /\ DispatcherInit
  /\ RegistryIdle
  /\ ApiKeyIdle
  /\ RepositoryIdle
  /\ ResourceIdle
  /\ AccumulatorIdle
  /\ ApiIdle
  /\ WebSocketIdle
  /\ node_groups = << "Other" >>
  /\ materials \in { << >>, << "BLSP.Ngon.Material" >> }
  /\ modifiers \in [Objects -> ModifierLists]
  /\ scanned = << >>
  /\ applied = NoApplication

VisualizerNext ==
  \E names \in NameLists, node_tree \in NodeTrees : ModifyWithGeometryNodes(names, node_tree)

SpecVisualizer == InitVisualizer /\ [][VisualizerNext]_vars

\* The request of a turn, for every history and new message.
InitRequest ==
  /\ history \in Histories
  /\ message \in UserMessages
  /\ TurnInit
  /\ DispatcherInit
  /\ RegistryIdle
  /\ ApiKeyIdle
  /\ RepositoryIdle
  /\ ResourceIdle
  /\ MoreIdle

RequestNext == BuildRequest \/ FirstCall \/ FirstCallFails

SpecRequest == InitRequest /\ [][RequestNext]_vars

\* ================================================================ claims
\* Helpers of the properties.
ContentOnly(chunks) == \A k \in 1..Len(chunks) : chunks[k].tool_calls = << >>
ContentDeltas(chunks) == [k \in 1..Len(chunks) |-> chunks[k].content]

\* The deltas of the first stream, flattened in arrival order.
RECURSIVE DeltasOf(_)
DeltasOf(chunks) ==
  IF chunks = << >> THEN << >> ELSE Head(chunks).tool_calls \o DeltasOf(Tail(chunks))

\* In-order concatenation of one field over the fragments of one index.
RECURSIVE Concatenated(_, _, _)
Concatenated(deltas, index, field) ==
  IF deltas = << >> THEN ""
  ELSE (IF Head(deltas).index = index /\ Head(deltas)[field] # Absent
        THEN Head(deltas)[field] ELSE "")
       \o Concatenated(Tail(deltas), index, field)

IndicesIn(deltas) == { deltas[k].index : k \in 1..Len(deltas) }

\* The tool-role messages of the message list, in order.
IsToolMessage(m) == m.role = "tool"
ToolMessages == SelectSeq(messages, IsToolMessage)

\* C1: a first stream of content deltas only is yielded token by token in
\* arrival order, and the provider is called exactly once for the turn.
C1_ContentOnlyTurn ==
  (pc \in {"STREAMING_FIRST", "STREAMING_DONE"} /\ ContentOnly(received)) =>
     /\ yielded = ContentDeltas(received)
     /\ Join(yielded) = Join(ContentDeltas(received))
     /\ Len(calls) = 1

C1_Witness ==
  /\ pc = "STREAMING_DONE"
  /\ received = << ContentChunk("Hi"), ContentChunk(" there") >>
  /\ Join(yielded) = "Hi there"
  /\ Len(calls) = 1

\* C2: for every fragmentation and interleaving, the entry of an index
\* holds the in-order concatenation of that index's name and arguments
\* fragments, and a delta changes no entry of another index.
C2_EntriesAreConcatenations ==
  LET deltas == DeltasOf(received)
  IN  /\ { collected_tool_calls[k].index : k \in 1..Len(collected_tool_calls) }
           = IndicesIn(deltas)
      /\ \A k \in 1..Len(collected_tool_calls) :
           LET entry == collected_tool_calls[k]
           IN  /\ entry.name = Concatenated(deltas, entry.index, "name")
               /\ entry.arguments = Concatenated(deltas, entry.index, "arguments")
               /\ \A j \in 1..Len(collected_tool_calls) :
                    j # k => collected_tool_calls[j].index # entry.index

C2_OtherEntriesUntouched ==
  Len(received') = Len(received) + 1 =>
    \A k \in 1..Len(collected_tool_calls) :
      collected_tool_calls[k].index \notin IndicesIn(received'[Len(received')].tool_calls)
        => collected_tool_calls'[k] = collected_tool_calls[k]

\* C2 (whole statement): the invariant and the frame condition together.
C2_Reconstruction == [] C2_EntriesAreConcatenations /\ [][C2_OtherEntriesUntouched]_vars

C2_Witness ==
  /\ received = << ToolChunk(Delta(0, "call_1", "get_", Absent)),
                   ToolChunk(Delta(1, "call_2", "execute_code", CodeArgs)),
                   ToolChunk(Delta(0, Absent, "context", "{")) >>
  /\ Len(collected_tool_calls) = 2
  /\ collected_tool_calls[1].name = "get_context"
  /\ collected_tool_calls[1].arguments = "{"
  /\ collected_tool_calls[2].name = "execute_code"

\* The batch is over: every tool call was dealt with, or a tool call ended
\* the run.
Registered(k) == collected_tool_calls[k].name \in tool_functions
AllRegistered == \A k \in 1..Len(collected_tool_calls) : Registered(k)
ToolCallEndedRun ==
  \/ failure = "tool_exception"
  \/ pc = "NEVER_RESUMED" /\ awaiting # NoCall
BatchOver == pc \in {"STREAMING_SECOND", "STREAMING_DONE"} \/ ToolCallEndedRun

\* C3: a batch of K tool calls leaves K tool-role messages in the order of
\* the tool calls, also when one tool raises and another returns.
C3_OneMessagePerCallInOrder ==
  (BatchOver /\ AllRegistered) =>
     /\ Len(ToolMessages) = Len(collected_tool_calls)
     /\ \A k \in 1..Len(ToolMessages) :
          /\ ToolMessages[k].tool_call_id = collected_tool_calls[k].id
          /\ ToolMessages[k].name = collected_tool_calls[k].name

\* C4: an exception raised by a tool never leaves the run: the run neither
\* fails with it nor stays suspended on the call.
C4_ToolExceptionIsAbsorbed == ~ToolCallEndedRun

\* The positions of the registered tool calls among the first n, in order.
RECURSIVE RegisteredUpTo(_)
RegisteredUpTo(n) ==
  IF n = 0 THEN << >>
  ELSE IF Registered(n) THEN Append(RegisteredUpTo(n - 1), n) ELSE RegisteredUpTo(n - 1)

\* The tool calls the loop has reached so far.
Reached ==
  CASE pc = "EXECUTING_TOOLS" -> i - 1
    [] pc = "AWAITING_TOOL" \/ ToolCallEndedRun -> i
    [] pc \in {"STREAMING_SECOND", "STREAMING_DONE"} \/ Len(calls) = 2 ->
         Len(collected_tool_calls)
    [] OTHER -> 0

\* C5: an unregistered name resolves to None; the loop skips such a call
\* (no invocation, no message, no failure), moves to the next tool call and
\* invokes every registered call it reaches, in order.
C5_UnknownResolvesToNone == Resolve("__not_registered__") = Absent

C5_RegisteredCallsInvokedInOrder ==
  /\ C5_UnknownResolvesToNone
  /\ [k \in 1..Len(invoked) |-> invoked[k].call] = RegisteredUpTo(Reached)

C5_UnknownIsSkipped ==
  (pc = "EXECUTING_TOOLS" /\ i <= Len(collected_tool_calls) /\ ~Registered(i)) =>
     /\ pc' = "EXECUTING_TOOLS"
     /\ i' = i + 1
     /\ UNCHANGED << messages, invoked, failure, calls, yielded >>

\* C5 (whole statement).
C5_UnknownToolSkipped == [] C5_RegisteredCallsInvokedInOrder /\ [][C5_UnknownIsSkipped]_vars

C5_Witness ==
  /\ pc = "STREAMING_DONE"
  /\ Len(collected_tool_calls) = 2
  /\ collected_tool_calls[1].name = "get_"
  /\ collected_tool_calls[2].name = "get_context"
  /\ Len(invoked) = 1
  /\ invoked[1].call = 2
  /\ Len(ToolMessages) = 1
  /\ ToolMessages[1].name = "get_context"

\* C6: a tool call whose arguments are not valid JSON is still invoked, with
\* no keyword arguments, and the run does not fail on it.
C6_MalformedArgumentsDoNotFail ==
  (awaiting # NoCall /\ ~JsonLoads(collected_tool_calls[awaiting.call].arguments).ok) =>
     /\ awaiting.kwargs = {}
     /\ ~ToolCallEndedRun

\* C7: at most two provider calls; the second is made only after tool calls
\* were accumulated, and always when the run completes with tool calls; it
\* suppresses the tool declarations; once it is made no tool is invoked.
C7_CallsInvariant ==
  /\ Len(calls) <= 2
  /\ Len(calls) = 2 =>
       /\ collected_tool_calls # << >>
       /\ calls[2].tools = << >>
       /\ calls[2].tool_choice = "none"
       /\ awaiting = NoCall
  /\ pc = "STREAMING_SECOND" => Len(calls) = 2
  /\ pc = "STREAMING_DONE" => (Len(calls) = 2 <=> collected_tool_calls # << >>)

C7_NoToolAfterSecondCall ==
  Len(calls) = 2 => UNCHANGED << invoked, calls, awaiting, messages >>

\* C7 (whole statement).
C7_AtMostTwoCalls == [] C7_CallsInvariant /\ [][C7_NoToolAfterSecondCall]_vars

C7_Witness ==
  /\ pc = "STREAMING_DONE"
  /\ Len(calls) = 2
  /\ Len(invoked) = 1
  /\ received2 = << ToolChunk(Delta(0, "call_1", "get_context", Absent)) >>

\* The tool calls in flight: invoked, without a tool-role message yet.
InFlight == Len(invoked) - Len(ToolMessages)

\* C13: the tool calls of a batch run one at a time: at most one invocation
\* is without its tool-role message, it is the one being awaited, every
\* earlier invocation has its message (in invocation order), and the
\* invocations follow the order of the tool calls.
C13_SequentialTools ==
  /\ InFlight \in {0, 1}
  /\ InFlight = 1 <=> awaiting # NoCall
  /\ InFlight = 1 => awaiting = invoked[Len(invoked)]
  /\ \A k \in 1..Len(ToolMessages) :
       /\ ToolMessages[k].tool_call_id = collected_tool_calls[invoked[k].call].id
       /\ ToolMessages[k].name = invoked[k].name
  /\ \A k \in 1..Len(invoked) - 1 : invoked[k].call < invoked[k + 1].call

C13_Witness ==
  /\ pc = "AWAITING_TOOL"
  /\ Len(invoked) = 2
  /\ awaiting.call = 2
  /\ awaiting.name = "execute_code"
  /\ Len(ToolMessages) = 1
  /\ ToolMessages[1].name = "get_context"

\* The provider calls made with the first (second) parameter set.
FirstAttempts == { k \in 1..Len(calls) : calls[k].tool_choice = "auto" }
SecondAttempts == { k \in 1..Len(calls) : calls[k].tool_choice = "none" }

\* C14: a provider error of the first or the second call ends the run as
\* failed with that error; each call is attempted once; a failed run takes
\* no further step (no retry); after a failure of the first call no tool
\* was invoked, no tool message exists and no second call was made.
C14_ProviderErrorFailsRun ==
  /\ failure = "provider_error" => pc = "FAILED"
  /\ Cardinality(FirstAttempts) <= 1
  /\ Cardinality(SecondAttempts) <= 1
  /\ (failure = "provider_error" /\ SecondAttempts = {}) =>
        /\ Len(calls) = 1
        /\ invoked = << >>
        /\ ToolMessages = << >>
        /\ awaiting = NoCall
  /\ (failure = "provider_error" /\ SecondAttempts # {}) => Len(calls) = 2

C14_FailedRunStops == pc = "FAILED" => UNCHANGED turnVars

\* C14 (whole statement).
C14_ProviderErrorPropagates ==
  [] C14_ProviderErrorFailsRun /\ [][C14_FailedRunStops]_vars

C14_Witness ==
  /\ pc = "FAILED"
  /\ failure = "provider_error"
  /\ Len(calls) = 1
  /\ collected_tool_calls # << >>
  /\ collected_tool_calls[1].name = "get_context"
  /\ invoked = << >>

\* The id an index ends up with: the last id any of its deltas carried.
RECURSIVE FinalId(_, _)
FinalId(deltas, index) ==
  IF deltas = << >> THEN ""
  ELSE LET last == deltas[Len(deltas)]
       IN  IF last.index = index /\ last.id # Absent THEN last.id
           ELSE FinalId(SubSeq(deltas, 1, Len(deltas) - 1), index)

\* The content deltas of a stream, in arrival order.
RECURSIVE ContentTokens(_)
ContentTokens(chunks) ==
  IF chunks = << >> THEN << >>
  ELSE (IF Head(chunks).content # Absent THEN << Head(chunks).content >> ELSE << >>)
       \o ContentTokens(Tail(chunks))

\* The invocations that have returned a result.
Completed == Len(invoked) - (IF awaiting # NoCall THEN 1 ELSE 0)

OkContent == "{\"status\": \"ok\", \"payload\": []}"
ErrorContent == "{\"status\": \"error\", \"payload\": \"boom\"}"

\* C16, first half: the tool-role messages are, in order, one per executed
\* tool call, with the finalized id of the call, the name of the function
\* called and the JSON text of a Result of that tool.
C16_OneMessagePerExecutedCall ==
  /\ Len(ToolMessages) = Completed
  /\ \A k \in 1..Len(ToolMessages) :
       LET tool_call == collected_tool_calls[invoked[k].call]
           m == ToolMessages[k]
       IN  /\ m.tool_call_id = FinalId(DeltasOf(received), tool_call.index)
           /\ m.name = invoked[k].name
           /\ m.name = Concatenated(DeltasOf(received), tool_call.index, "name")
           /\ \/ m.content = OkContent
              \/ ToolTable[m.name].catches /\ m.content = ErrorContent

OneToolCallTurn ==
  pc = "STREAMING_DONE" /\ Len(collected_tool_calls) = 1 /\ Len(invoked) = 1

IsContextMessage(m) ==
  m.role = "system" /\ m.content = "{\"context\": " \o OkContent \o "}"

\* The message is the new user message: its parts are the text (when there
\* is one) followed by one image per file.
IsNewUserMessage(m) ==
  /\ m.role = "user"
  /\ Len(m.content) = (IF message.text = "" THEN 0 ELSE 1) + Len(message.files)
  /\ message.text # "" => m.content[1] = [type |-> "text", text |-> message.text]
  /\ \A k \in 1..Len(m.content) : m.content[k].type = "text" => k = 1

RequestSent == Len(calls) = 1

FixedPrefix ==
  /\ messages[1] = [role |-> "system", content |-> "SYSTEM_PROMPT"]
  /\ messages[2] = [role |-> "system", content |-> "Language: en"]

\* C15 as stated: system prompt, language hint, the context message if
\* any, the history in its order, and the new user message last.
C15_UserMessageLast ==
  RequestSent =>
    LET n == Len(messages)
        c == IF n > 2 /\ IsContextMessage(messages[3]) THEN 1 ELSE 0
    IN  /\ n = 3 + c + Len(history)
        /\ FixedPrefix
        /\ SubSeq(messages, 3 + c, n - 1) = history
        /\ IsNewUserMessage(messages[n])

\* C15 as amended: system prompt, language hint, the history in its
\* order, the new user message, and the context message last.
C15_ContextMessageLast ==
  RequestSent =>
    LET n == Len(messages)
    IN  /\ n = 4 + Len(history)
        /\ calls[1].messages = n
        /\ FixedPrefix
        /\ SubSeq(messages, 3, n - 2) = history
        /\ IsNewUserMessage(messages[n - 1])
        /\ IsContextMessage(messages[n])

C15_Witness ==
  /\ pc = "STREAMING_FIRST"
  /\ history = << [role |-> "user", content |-> "q"], [role |-> "assistant", content |-> "a"] >>
  /\ message = [text |-> "hello", files |-> << "/tmp/a.png" >>]
  /\ Len(messages) = 6
  /\ messages[5].role = "user"
  /\ Len(messages[5].content) = 2
  /\ messages[6].role = "system"

\* The names of the declarations, and the tools of a module as defined.
DeclaredNames == [k \in 1..Len(declared[1]) |-> declared[1][k]["function"].name]
ToolsAsDefined == SelectSeq(members, IsTool)

RegistryUntouched == members' = members /\ (declared # << >> => declared' = declared)

\* C17 as stated: the declarations are in the order the tools were
\* defined, and producing them changes nothing in the registry.
C17_InDefinitionOrder == declared # << >> => DeclaredNames = ToolsAsDefined

C17_DefinitionOrder == [] C17_InDefinitionOrder /\ [][RegistryUntouched]_vars

\* C17 as amended: the declarations are exactly the tools of the module in
\* ascending order of their names, whatever the order of definition; the
\* list of tools.py is the one given to the provider; producing the list
\* again gives the same list and changes nothing in the registry.
C17_InNameOrder ==
  /\ declared # << >> =>
        /\ { DeclaredNames[k] : k \in 1..Len(DeclaredNames) }
             = { ToolsAsDefined[k] : k \in 1..Len(ToolsAsDefined) }
        /\ Len(DeclaredNames) = Len(ToolsAsDefined)
        /\ \A j, k \in 1..Len(DeclaredNames) :
             j < k => NameBefore(DeclaredNames[j], DeclaredNames[k])
  /\ LET real == GetTools(DefinedInModule)
     IN  [k \in 1..Len(real) |-> real[k]["function"].name] = tools

C17_NameOrder == [] C17_InNameOrder /\ [][RegistryUntouched]_vars

C17_Witness ==
  /\ members = << "get_objects", "get_object", "get_prompt" >>
  /\ declared # << >>
  /\ DeclaredNames = << "get_object", "get_objects" >>

\* The text holds the secret as a run of consecutive characters.
Contains(text, secret) ==
  \E o \in 0..(Len(text) - Len(secret)) : SubSeq(text, o + 1, o + Len(secret)) = secret

\* C18: what str, repr and format give for a key, and what the
\* orchestrator logs, differs from the secret and does not contain it; the
\* secret itself comes only out of the explicit reveal (reveal(), the "raw"
\* format), and the provider call is handed that revealed value.
C18_ShownKeyIsMasked ==
  /\ emitted.via \in {"str", "repr", "format", "log"} =>
        /\ emitted.text # api_key
        /\ ~Contains(emitted.text, api_key)
  /\ (emitted.via # Absent /\ emitted.text = api_key) =>
        emitted.via \in {"reveal", "format:raw", "provider"}
  /\ emitted.via = "provider" => emitted.text = api_key

\* C19: get(p) right after save(p, k) returns a key equal to k, and get(p)
\* right after a delete(p) that followed returns None.
C19_GetAfterSaveAndDelete ==
  (last_call'.op = "get" /\ last_call'.provider = last_call.provider) =>
     /\ last_call.op = "save" => last_call'.result = last_call.key
     /\ last_call.op = "delete" => last_call'.result = Absent

C19_SaveGetDeleteGet == [][C19_GetAfterSaveAndDelete]_vars

\* Percent-decoding, by cases: known encodings and their decodings, the
\* texts without "%" (unchanged), and the length of the result.
Occurrences(string, char) == Cardinality({ k \in 1..Len(string) : string[k] = char })

DecodingCases ==
  << << << "x", "%", "2", "5", "x" >>, << "x", "%", "x" >> >>,
     << << "%", "2", "2" >>, << "\"" >> >>,
     << << "%", "2", "5", "2", "2" >>, << "%", "2", "2" >> >>,
     << << "%", "5", "2", "%", "5" >>, << "R", "%", "5" >> >>,
     << << "%", "x", "2" >>, << "%", "x", "2" >> >>,
     << << "%", "%", "5", "5" >>, << "%", "U" >> >>,
     << << "2", "5" >>, << "2", "5" >> >>,
     << << >>, << >> >> >>

IsDecodingOf(name, encoded) ==
  /\ \A k \in 1..Len(DecodingCases) :
       encoded = DecodingCases[k][1] => name = DecodingCases[k][2]
  /\ Occurrences(encoded, "%") = 0 => name = encoded
  /\ (Len(encoded) - Len(name)) % 2 = 0
  /\ Len(name) <= Len(encoded)
  /\ Len(encoded) - Len(name) <= 2 * Occurrences(encoded, "%")
  /\ Occurrences(name, "x") = Occurrences(encoded, "x")

Readable == uri.scheme = "blender" /\ uri.host # "" /\ uri.path # << >>

Count(seq, x) == Cardinality({ k \in 1..Len(seq) : seq[k] = x })
InQueue(closure) == Count(execution_queue, closure) > 0
InTick == tick # "idle"

\* C8: an exception of a dispatched function never leaves
\* execute_queued_functions, and every closure the tick has called has
\* resolved its Future (with a result or with the exception).
C8_ExceptionStaysInClosure ==
  /\ escaped = << >>
  /\ \A k \in 1..Len(executed) : futures[executed[k]] # "pending"

\* C9: closures are called in the order they were queued; each tick calls
\* every closure that was queued when it began and then hands INTERVAL = 0
\* to the host timer.
C9_FifoOrder == executed = [k \in 1..Len(executed) |-> k]

C9_TickDrains ==
  (InTick /\ tick' = "idle") =>
     /\ \A k \in 1..Len(queued_at_start) : Count(executed', queued_at_start[k]) = 1
     /\ returned' = << INTERVAL >>

\* C9 (whole statement): FIFO order, and every tick drains and reschedules.
C9_TickDrainsFifoAndReschedules == [] C9_FifoOrder /\ [][C9_TickDrains]_vars

\* C10: every closure ever queued is in the queue exactly once and not yet
\* called, or out of the queue and called exactly once (the tick holds it
\* between get() and the call); the Future of a queued closure is pending;
\* a caller waiting for a queued closure keeps waiting (it receives neither
\* a value nor an exception; only a timeout it asked for ends its wait);
\* once the host has stopped ticking the queue and the Futures stay as
\* they are.
Called(closure) ==
  Count(executed, closure) + (IF tick = "call" /\ function = closure THEN 1 ELSE 0)

Waiting(c) == callers[c].pc \in {"awaiting", "blocking"}

C10_QueuedOrCalledOnce ==
  /\ \A closure \in 1..Len(closures) :
       /\ Count(execution_queue, closure) + Called(closure) = 1
       /\ InQueue(closure) => futures[closure] = "pending"
  /\ \A k \in 1..Len(execution_queue) : execution_queue[k] \in 1..Len(closures)
  /\ \A c \in Callers :
       Waiting(c) => /\ callers[c].closure \in 1..Len(closures)
                     /\ closures[callers[c].closure].caller = c
                     /\ callers[c].got = Absent

C10_AwaiterOfQueuedStaysPending ==
  \A c \in Callers :
    (Waiting(c) /\ InQueue(callers[c].closure)) =>
       \/ callers'[c] = callers[c]
       \/ callers[c].timeout # Absent /\ callers'[c].got = "timeout"

C10_StoppedHostKeepsQueue ==
  (~registered /\ ~InTick) =>
     /\ futures' = futures
     /\ \A closure \in 1..Len(closures) : InQueue(closure) => InQueue(closure)'
     /\ executed' = executed

\* C10 (whole statement).
C10_NoClosureDropped ==
  /\ [] C10_QueuedOrCalledOnce
  /\ [][C10_AwaiterOfQueuedStaysPending /\ C10_StoppedHostKeepsQueue]_vars

C10_Witness ==
  /\ ~registered
  /\ ~InTick
  /\ Len(executed) >= 1
  /\ execution_queue # << >>
  /\ \E c \in Callers :
       /\ callers[c].pc = "awaiting"
       /\ InQueue(callers[c].closure)
       /\ futures[callers[c].closure] = "pending"

\* C11: a caller that dispatched from inside a running event loop is
\* suspended on the Future (its thread is not blocked); while it waits the
\* only thing that can happen to it is to be resumed with the value its
\* own function returned on the host thread; and if the host keeps running
\* the tick it is eventually resumed with exactly that value.
C11_ResumedOnlyWithItsValue ==
  \A c \in Callers :
    (callers[c].pc = "awaiting" /\ callers'[c] # callers[c]) =>
       /\ futures[callers[c].closure] = ReturnValue(callers[c].closure)
       /\ Count(executed, callers[c].closure) = 1
       /\ callers'[c] = [Idle EXCEPT !.got = ReturnValue(callers[c].closure)]

\* The caller of closure k awaits it, and its function returns.
AwaitedFromLoop(k) ==
  /\ k <= Len(closures)
  /\ ~closures[k].raises
  /\ callers[closures[k].caller].pc = "awaiting"
  /\ callers[closures[k].caller].closure = k

ResumedWithValueOf(k) ==
  /\ k <= Len(closures)
  /\ callers[closures[k].caller].pc = "idle"
  /\ callers[closures[k].caller].got = ReturnValue(k)

C11_EventuallyResumed ==
  \A k \in 1..MaxClosures :
    AwaitedFromLoop(k) ~> (ResumedWithValueOf(k) \/ ~registered)

\* C11 (whole statement).
C11_AwaiterResumedWithValue ==
  [][C11_ResumedOnlyWithItsValue]_vars /\ C11_EventuallyResumed

C11_Witness ==
  /\ registered
  /\ escaped # << >>
  /\ \E c \in Callers :
       /\ callers[c].pc = "idle"
       /\ callers[c].got = ReturnValue(2)
       /\ closures[2].caller = c
       /\ executed = << 1, 2 >>

\* C12: a caller blocked on the Future with a timeout receives a timeout
\* error only while its closure has not been called to completion, the
\* timeout leaves the queue, the Futures and the closures as they are (the
\* closure stays queued and a later tick may still call it), and such a
\* caller never hangs: it gets the result or the timeout error.
C12_TimeoutKeepsClosureQueued ==
  \A c \in Callers :
    (callers[c].pc = "blocking" /\ callers'[c].got = "timeout") =>
       /\ callers[c].timeout # Absent
       /\ futures[callers[c].closure] = "pending"
       /\ callers'[c].pc = "idle"
       /\ UNCHANGED << execution_queue, futures, closures, executed >>

C12_NeverHangs ==
  \A c \in Callers :
    (callers[c].pc = "blocking" /\ callers[c].timeout # Absent)
      ~> (callers[c].pc = "idle" /\ callers[c].got # Absent)

\* C12 (whole statement).
C12_TimeoutInsteadOfHanging ==
  [][C12_TimeoutKeepsClosureQueued]_vars /\ C12_NeverHangs

C12_Witness ==
  /\ Len(closures) = 1
  /\ callers[closures[1].caller].pc = "idle"
  /\ callers[closures[1].caller].got = "timeout"
  /\ executed = << 1 >>
  /\ futures[1] = ReturnValue(1)

\* C21: while the tick is not registered with the host timer, a call to a
\* dispatched function runs the function in the caller at once: the caller
\* is back with the function's result (or its exception) in the same step,
\* nothing is put on the execution queue, no Future and no closure is
\* created and the tick executes nothing for it.
C21_RunsInCaller ==
  \A c \in Callers :
    (~registered /\ callers[c].pc = "idle" /\ callers'[c] # callers[c]) =>
       /\ callers'[c].pc = "idle"
       /\ callers'[c].closure = 0
       /\ callers'[c].got \in {"value", "exception"}
       /\ UNCHANGED << execution_queue, futures, closures, executed, tick >>

C21_NothingQueuedOutsideHost ==
  (~registered /\ closures = << >>) =>
     /\ execution_queue = << >>
     /\ futures = << >>
     /\ \A c \in Callers : callers[c].pc = "idle"

RECURSIVE FinalType(_, _)
FinalType(deltas, index) ==
  IF deltas = << >> THEN "function"
  ELSE LET latest == deltas[Len(deltas)]
       IN  IF latest.index = index /\ latest.type # Absent THEN latest.type
           ELSE FinalType(SubSeq(deltas, 1, Len(deltas) - 1), index)

\* The text a delta adds to a field of the entry of its index.
Added(delta, field) == IF delta[field] = Absent THEN "" ELSE delta[field]

\* C22: the id and the type of the entry of an index are those of the last
\* fragment of that index that carried one ("" and "function" while none
\* did), whatever earlier fragments carried; name and arguments are the
\* concatenation of the fragments, and a merge only appends to them.
C22_IdAndTypeOfLastFragment ==
  \A k \in 1..Len(accumulated) :
    LET entry == accumulated[k]
    IN  /\ entry.id = FinalId(consumed, entry.index)
        /\ entry.type = FinalType(consumed, entry.index)
        /\ entry.name = Concatenated(consumed, entry.index, "name")
        /\ entry.arguments = Concatenated(consumed, entry.index, "arguments")

C22_NameAndArgumentsOnlyAppended ==
  Len(consumed') = Len(consumed) + 1 =>
    LET delta == consumed'[Len(consumed')]
    IN  \A k \in 1..Len(accumulated) :
          /\ accumulated'[k].index = accumulated[k].index
          /\ IF accumulated[k].index = delta.index
             THEN /\ accumulated'[k].name = accumulated[k].name \o Added(delta, "name")
                  /\ accumulated'[k].arguments
                       = accumulated[k].arguments \o Added(delta, "arguments")
                  /\ accumulated'[k].id = Get(delta.id, accumulated[k].id)
                  /\ accumulated'[k].type = Get(delta.type, accumulated[k].type)
             ELSE accumulated'[k] = accumulated[k]

C22_LastWriteWins ==
  [] C22_IdAndTypeOfLastFragment /\ [][C22_NameAndArgumentsOnlyAppended]_vars

C22_Witness ==
  /\ consumed = << TypedDelta(0, "call_1", "function", "get_", Absent),
                   TypedDelta(0, "call_2", "custom", "get_", Absent) >>
  /\ Len(accumulated) = 1
  /\ accumulated[1].id = "call_2"
  /\ accumulated[1].type = "custom"
  /\ accumulated[1].name = "get_get_"

\* C23: save_api_key answers success exactly when its verification request
\* was made and did not raise; a provider without a default model gets no
\* verification request. A call that answers success=false leaves the
\* cache and the key-ring (the provider's entry and the provider list) as
\* they were, and a call that answers success has stored the verified key.
C23_AnswerFollowsVerification ==
  response # << >> =>
     /\ response[1].success <=> (tested # << >> /\ ~tested[1].raised)
     /\ tested # << >> =>
          \E provider \in Providers, key \in StoredKeys :
             /\ DefaultModel(provider) # Absent
             /\ tested[1].model = provider \o "/" \o DefaultModel(provider)
             /\ tested[1].api_key = Reveal(key)

C23_FailureChangesNothing ==
  (response = << >> /\ response' # << >>) =>
     IF response'[1].success
     THEN \E provider \in Providers, key \in StoredKeys :
             /\ tested'[1] = TestRequest(provider, key, FALSE)
             /\ cache' = Store(cache, provider, key)
             /\ Lookup(keyring', provider) = Reveal(key)
             /\ \E k \in 1..Len(LoadProviderList(keyring')) :
                  LoadProviderList(keyring')[k] = provider
     ELSE UNCHANGED << cache, keyring >>

C23_SavedOnlyWhenVerified ==
  [] C23_AnswerFollowsVerification /\ [][C23_FailureChangesNothing]_vars

C23_Witness ==
  /\ response # << >>
  /\ ~response[1].success
  /\ tested # << >>
  /\ tested[1].raised
  /\ tested[1].api_key = "sk-2"
  /\ Lookup(cache, "openai") = "sk-1"
  /\ Lookup(keyring, "openai") = "sk-1"

\* The frames whose receipt, validation or handling raises an exception.
RaisesOn(data) ==
  data # Disconnect /\ (~Validates(data) \/ Handled(data) = {Raises})

\* The entries of the log for which a message was sent, in order.
Answered == SelectSeq(served, LAMBDA e : e.outcome \in {"error", "result"})

\* C24: every frame whose receipt, validation or handling raises is
\* answered with the error message (unless the client is gone), no other
\* frame is; the messages sent are the answers in the order of the frames;
\* after an exception the endpoint is receiving again; and the endpoint
\* has ended only if the client disconnected.
C24_ExceptionsReported ==
  /\ \A k \in 1..Len(served) :
       LET e == served[k]
       IN  /\ e.outcome = "error" <=> (RaisesOn(e.frame) /\ e.outcome \notin {"handling", "gone"})
           /\ e.outcome = "gone" => client.pc = "closed"
           /\ e.outcome = "handling" => (k = Len(served) /\ endpoint = "handle")
  /\ Len(ws_sent) = Len(Answered)
  /\ \A k \in 1..Len(ws_sent) :
       (ws_sent[k] = ErrorMessage) <=> (Answered[k].outcome = "error")
  /\ endpoint \in {"returned", "raised"} =>
       (client.pc = "closed" /\ served[Len(served)].outcome = "gone")

C24_LoopGoesOn ==
  (served' # served /\ served'[Len(served')].outcome = "error") =>
     /\ endpoint' = "receive"
     /\ ws_sent' = Append(ws_sent, ErrorMessage)

C24_ErrorsDoNotEndTheLoop == [] C24_ExceptionsReported /\ [][C24_LoopGoesOn]_vars

C24_Witness ==
  /\ Len(served) = 2
  /\ served[1] = Log(NotJson, "error")
  /\ served[2] = Log(Frame("get_resources", Absent, Absent, Absent, Absent), "result")
  /\ ws_sent = << ErrorMessage, OkResult >>
  /\ client.pc = "idle"
  /\ client.response = << OkResult >>
  /\ endpoint = "receive"

\* C28: once the endpoint has dealt with every command the client sent, it
\* has sent exactly one message per command, so a client that waits for the
\* reply to its command gets one.
C28_EveryCommandAnswered ==
  (endpoint = "receive" /\ ws_frames = << >> /\ client.pc # "closed") =>
     /\ Len(ws_sent) = client.requests
     /\ client.pc = "waiting" => client.read < Len(ws_sent)

\* The NODES modifiers of an object that are bound to a node group.
Bound(obj_name, node_group) ==
  Cardinality({ k \in 1..Len(modifiers[obj_name]) :
                  /\ modifiers[obj_name][k].type = "NODES"
                  /\ modifiers[obj_name][k].node_group = node_group })

Named(names) == { names[k] : k \in 1..Len(names) }

\* C25: after any number of calls, no node group and no material is in
\* the file twice and no object has two NODES modifiers bound to one node
\* group; after a call that returned ok the node group and the materials
\* it refers to are in the file exactly once and every named object that
\* exists has exactly one NODES modifier bound to the group; names of
\* missing objects do not fail the call; a call changes no object it does
\* not name, and the same call made again changes nothing.
C25_ExactlyOnce ==
  /\ \A name \in NodeTrees : Count(node_groups, name) <= 1
  /\ \A name \in AssetMaterials : Count(materials, name) <= 1
  /\ DOMAIN modifiers = Objects
  /\ \A obj_name \in Objects, name \in NodeTrees : Bound(obj_name, name) <= 1
  /\ applied.status = "ok" =>
       /\ Count(node_groups, applied.node_tree) = 1
       /\ \A mn \in ReferencedBy(applied.node_tree) : Count(materials, mn) = 1
       /\ \A obj_name \in Named(applied.names) \cap Objects :
            Bound(obj_name, applied.node_tree) = 1
  /\ applied.status = "error" =>
       (applied.node_tree \notin AssetNodeGroups /\ ~Holds(node_groups, applied.node_tree))

C25_SameCallChangesNothing ==
  /\ (applied.status = "ok" /\ applied'.names = applied.names
        /\ applied'.node_tree = applied.node_tree) =>
       UNCHANGED << node_groups, materials, modifiers >>
  /\ \A obj_name \in Objects :
       /\ obj_name \notin Named(applied'.names) => modifiers'[obj_name] = modifiers[obj_name]
       /\ SubSeq(modifiers'[obj_name], 1, Len(modifiers[obj_name])) = modifiers[obj_name]

C25_VisualizerIsIdempotent == [] C25_ExactlyOnce /\ [][C25_SameCallChangesNothing]_vars

C25_Witness ==
  /\ applied = [names |-> << "Cube", "Ghost" >>, node_tree |-> "BLSP.Ngon", status |-> "ok"]
  /\ modifiers["Cube"] = << Modifier("NODES", "Other"), Modifier("NODES", "BLSP.Ngon") >>
  /\ modifiers["Suzanne"] = << Modifier("NODES", "BLSP.Ngon") >>
  /\ node_groups = << "Other", "BLSP.Ngon" >>
  /\ materials = << "BLSP.Ngon.Material" >>

\* C26: in the message list of the second provider call, the tool-role
\* messages answer the tool calls of the assistant message one for one:
\* their tool_call_id values are the ids of the tool calls, in order.
C26_EveryToolCallAnswered ==
  Len(calls) = 2 =>
     [k \in 1..Len(ToolMessages) |-> ToolMessages[k].tool_call_id]
       = [k \in 1..Len(collected_tool_calls) |-> collected_tool_calls[k].id]

\* The threads that are reading or changing host state.
InCaller == { c \in Callers : callers[c].pc = "in body" }
InTickCall == IF tick = "call" THEN 1 ELSE 0

\* C27: inside the host no tool body runs in a calling thread, and at most
\* one thread at a time is accessing host state.
C27_HostStateOnlyInTick ==
  /\ registered => InCaller = {}
  /\ Cardinality(InCaller) + InTickCall <= 1

\* C29: once the caller has stopped consuming during the first stream, the
\* run does nothing more: its state never changes again, the only provider
\* call is the first one, no tool was invoked, and the message list is
\* still the one sent with the first call (no assistant message, no tool
\* message), whatever the stream had delivered, tool-call deltas included.
C29_AbandonedRunIsInert ==
  pc = "ABANDONED" =>
     /\ Len(calls) = 1
     /\ invoked = << >>
     /\ awaiting = NoCall
     /\ ToolMessages = << >>
     /\ Len(messages) = calls[1].messages
     /\ \A k \in 1..Len(messages) : messages[k].role # "tool"
     /\ received2 = << >>
     /\ failure = Absent

C29_NothingAfterAbandonment == pc = "ABANDONED" => UNCHANGED turnVars

C29_AbandonmentStopsTheRun ==
  [] C29_AbandonedRunIsInert /\ [][C29_NothingAfterAbandonment]_vars

C29_Witness ==
  /\ pc = "ABANDONED"
  /\ Len(received) = 2
  /\ received[1].tool_calls # << >>
  /\ received[2].content = "Hi"
  /\ collected_tool_calls # << >>
  /\ collected_tool_calls[1].name = "get_context"
  /\ yielded = << "Hi" >>

\* The providers that were saved: those with an entry in the key-ring.
SavedProviders == { provider \in Providers : Lookup(keyring, provider) # Absent }

\* C30: every provider in the cache has a key-ring entry with the same
\* raw value; the persisted provider list is a list without duplicates
\* that holds every saved provider; the mapping list returns is not the
\* cache, and a caller changing it changes neither cache nor key-ring.
C30_CacheAgreesWithKeyring ==
  /\ \A provider \in DOMAIN cache : Lookup(keyring, provider) = Reveal(cache[provider])
  /\ DOMAIN cache \subseteq Providers
  /\ SavedProviders # {} =>
       \E l \in ProviderLists :
          /\ Lookup(keyring, PROVIDER_LIST_USERNAME) = DumpProviderList(l)
          /\ { l[k] : k \in 1..Len(l) } = SavedProviders
  /\ SavedProviders = {} => Lookup(keyring, PROVIDER_LIST_USERNAME) = Absent
  /\ ~listed.shares

C30_ListedMappingIsACopy ==
  listed'.mutated > listed.mutated => (cache' = cache /\ keyring' = keyring)

C30_RepositoryInvariants == [] C30_CacheAgreesWithKeyring /\ [][C30_ListedMappingIsACopy]_vars

C30_Witness ==
  /\ DOMAIN cache = {"openai", "test"}
  /\ listed.mutated = 1
  /\ DOMAIN listed.entries = {"test"}
  /\ Lookup(keyring, PROVIDER_LIST_USERNAME) = DumpProviderList(<< "test", "openai" >>)
  /\ Lookup(keyring, "openai") = "sk-2"

====
